---------------------------- MODULE Spec2Model ----------------------------
(***************************************************************************)
(* A model of the terminal widget core of aparte (src/src/terminus.rs):    *)
(* the BufferedWin scrollback, the Input line editor, the FrameLayout and *)
(* LinearLayout containers, the ListView and the ANSI-aware text metric,    *)
(* and of the event dispatcher of the application (src/src/core.rs) with   *)
(* its plugins (src/src/plugins).                                          *)
(*                                                                         *)
(* Every widget is one record-valued variable.  Each handler of the source *)
(* is one action; the handler's computation is an operator on the widget   *)
(* record, so that a claim about "calling f then g" can be stated on the   *)
(* same operators the actions use.                                         *)
(***************************************************************************)
EXTENDS Integers, Sequences, FiniteSets, TLC

VARIABLES
    build,   \* the build profile: are integer overflow checks compiled in
    win,     \* View<BufferedWin<T>>
    input,   \* View<Input>
    ll,      \* View<LinearLayout>
    fl,      \* View<FrameLayout>
    lv,      \* View<ListView<G, V>>
    vl,      \* a call of term_string_visible_len
    bicall,  \* a call of Input::byte_index on an Input built field by field
    ap       \* Aparte: the event queue, its lock, the plugins, the call stack

vars == <<build, win, input, ll, fl, lv, vl, bicall, ap>>

\* what the handlers of one widget leave alone
NotWin == <<build, input, ll, fl, lv, vl, bicall, ap>>
NotInput == <<build, win, ll, fl, lv, vl, bicall, ap>>
NotLayout == <<build, win, input, fl, lv, vl, bicall, ap>>
NotFrame == <<build, win, input, ll, lv, vl, bicall, ap>>
NotList == <<build, win, input, ll, fl, vl, bicall, ap>>
NotText == <<build, win, input, ll, fl, lv, bicall, ap>>
NotByteIndex == <<build, win, input, ll, fl, lv, vl, ap>>
NotAparte == <<build, win, input, ll, fl, lv, vl, bicall>>

-----------------------------------------------------------------------------
(* Bounds of the model.                                                    *)

\* largest height constraint handed to BufferedWin.measure
MaxH == 3
\* largest number of messages a BufferedWin receives
MaxMsgs == 3
\* largest number of characters typed into the Input buffer
MaxBuf == 2
\* longest buffer of an Input that is only edited
MaxEdit == 3
\* largest number of buffers the Input history holds
MaxHist == 2
\* largest Absolute(n) size of a child of a LinearLayout
MaxSize == 3
\* largest width or height constraint handed to LinearLayout.measure
MaxSpec == 3
\* largest top and left handed to a layout
MaxPos == 2
\* largest number of children pushed to a LinearLayout
MaxChildren == 3
\* largest number of items inserted into a ListView
MaxItems == 3
\* largest number of events enqueued in one run of the dispatcher
MaxEvents == 4
\* largest number of accounts of the configuration that connect at start
MaxAccounts == 1
\* longest visible text handed to term_string_visible_len
MaxText == 2
\* longest buffer byte_index is called on directly
MaxStr == 3

-----------------------------------------------------------------------------
(* Option<u16> / Option<usize> and Option<String>.                         *)

None == [some |-> FALSE, v |-> 0]
Some(x) == [some |-> TRUE, v |-> x]
NoString == [some |-> FALSE, v |-> <<>>]
SomeString(s) == [some |-> TRUE, v |-> s]

Min(a, b) == IF a <= b THEN a ELSE b
Max(a, b) == IF a >= b THEN a ELSE b

-----------------------------------------------------------------------------
(* The terminal cursor.  term is the terminal a view writes to through     *)
(* self.screen: cursor is the <<column, row>> of its cursor, saved the      *)
(* position kept by its save-cursor sequence (the home position until the  *)
(* first save).  tracks says the view was built with the no-cursor-save    *)
(* feature and keeps the position in cursor_x and cursor_y itself.         *)

Home == <<1, 1>>

\* a restore_cursor that leaves the cursor where the drawing ended
restore_cursor_skipped(v) == v

\* View::save_cursor: Save, or cursor_pos() into cursor_x and cursor_y
save_cursor(v) ==
    IF v.tracks
    THEN [v EXCEPT !.cursor_x = Some(v.term.cursor[1]),
                   !.cursor_y = Some(v.term.cursor[2])]
    ELSE [v EXCEPT !.term.saved = v.term.cursor]

\* View::restore_cursor: Restore, or Goto(cursor_x, cursor_y)
restore_cursor(v) ==
    IF v.tracks
    THEN [v EXCEPT !.term.cursor = <<v.cursor_x.v, v.cursor_y.v>>]
    ELSE [v EXCEPT !.term.cursor = v.term.saved]

\* goto! and vprint!: the cursor ends at the given column and row
cursor_at(v, column, row) == [v EXCEPT !.term.cursor = <<column, row>>]

-----------------------------------------------------------------------------
(* BufferedWin<T>.  A message is its formatted text, a sequence of         *)
(* characters in which "\n" is the line break; two messages are equal when *)
(* their texts are.                                                        *)

Messages ==
    { <<>>, <<"a">>, <<"b", "\n">>, <<"a", "\n", "b">>, <<"\n", "\n">> }

\* position of the first "\n" of s, 0 when there is none
RECURSIVE FirstBreak(_, _)
FirstBreak(s, i) ==
    IF i > Len(s) THEN 0
    ELSE IF s[i] = "\n" THEN i
    ELSE FirstBreak(s, i + 1)

\* str::lines(): split on line breaks, a final line break opens no new line
RECURSIVE lines(_)
lines(s) ==
    IF s = <<>> THEN <<>>
    ELSE LET k == FirstBreak(s, 1)
         IN  IF k = 0 THEN <<s>>
             ELSE <<SubSeq(s, 1, k - 1)>> \o lines(SubSeq(s, k + 1, Len(s)))

\* buf.iter().flat_map(|m| format!("{}", m).lines()...)
RECURSIVE buffers(_)
buffers(buf) ==
    IF buf = <<>> THEN <<>>
    ELSE lines(Head(buf)) \o buffers(Tail(buf))

\* usize subtraction a - b: with overflow checks an underflow panics, without
\* them it wraps to a value larger than any collection (wrapped)
usize_sub(a, b, checks) ==
    IF a >= b THEN [panic |-> FALSE, wrapped |-> FALSE, v |-> a - b]
    ELSE [panic |-> checks, wrapped |-> ~checks, v |-> 0]

NoLine == [some |-> FALSE, v |-> <<>>]

\* <BufferedWin as ViewTrait>::redraw.  Every row is blanked and the cursor
\* put back at its first column; a line printed there moves the cursor by
\* its length
redraw_win(w, checks) ==
    LET saved == save_cursor(w)
        all   == buffers(w.buf)
        count == Len(all)
        h     == w.h.v
        skipc == IF count > h
                 THEN usize_sub(count - h, w.view, checks)
                 ELSE [panic |-> FALSE, wrapped |-> FALSE, v |-> 0]
        \* for _ in 0 .. n { if buffers.next().is_none() { break; } }
        skip  == IF skipc.wrapped THEN count ELSE Min(skipc.v, count)
        rest  == SubSeq(all, skip + 1, count)
        rows  == [y \in 1..h |->
                    IF y <= Len(rest) THEN [some |-> TRUE, v |-> rest[y]]
                    ELSE NoLine]
        drawn == IF h = 0 THEN saved
                 ELSE cursor_at(saved,
                                w.x + (IF rows[h].some THEN Len(rows[h].v) ELSE 0),
                                w.y + h - 1)
    IN  IF skipc.panic
        THEN [saved EXCEPT !.status = "panic", !.next_line = 0]
        ELSE restore_cursor([drawn EXCEPT !.next_line = Min(h, Len(rest)),
                                          !.rows = rows])

\* recv_message without the contains_key check
recv_message_op_no_dedup(w, message, print, checks) ==
    LET w1 == [w EXCEPT
                 !.history = [m \in DOMAIN w.history \cup {message} |->
                                IF m = message THEN Len(w.buf)
                                ELSE w.history[m]],
                 !.buf = Append(w.buf, message)]
    IN  IF print THEN redraw_win(w1, checks) ELSE w1

\* Window::recv_message
recv_message_op(w, message, print, checks) ==
    IF message \in DOMAIN w.history THEN w
    ELSE LET w1 == [w EXCEPT
                      !.history = [m \in DOMAIN w.history \cup {message} |->
                                     IF m = message THEN Len(w.buf)
                                     ELSE w.history[m]],
                      !.buf = Append(w.buf, message)]
         IN  IF print THEN redraw_win(w1, checks) ELSE w1

\* page_up without the clamp to max
page_up_op_unclamped(w, checks) ==
    LET count == Len(buffers(w.buf))
        h     == w.h.v
    IN  IF count < h THEN w
        ELSE redraw_win([w EXCEPT !.view = w.view + h], checks)

\* Window::page_up
page_up_op(w, checks) ==
    LET count == Len(buffers(w.buf))
        h     == w.h.v
        max   == count - h
    IN  IF count < h THEN w
        ELSE redraw_win([w EXCEPT !.view = IF w.view + h < max
                                           THEN w.view + h
                                           ELSE max], checks)

\* Window::page_down
page_down_op(w, checks) ==
    LET h == w.h.v
    IN  redraw_win([w EXCEPT !.view = IF w.view > h
                                      THEN w.view - h
                                      ELSE 0], checks)

\* the default ViewTrait::measure on a view whose height is MatchParent
measure_win_op(w, height_spec) == [w EXCEPT !.h = height_spec]

\* View<BufferedWin>::new, on a terminal with the cursor at a position
WinNew(tracks, cursor) ==
    [buf |-> <<>>, history |-> <<>>, view |-> 0, next_line |-> 0,
     x |-> 0, y |-> 0, h |-> None, dirty |-> TRUE, rows |-> <<>>,
     status |-> "ok", tracks |-> tracks, cursor_x |-> None, cursor_y |-> None,
     term |-> [cursor |-> cursor, saved |-> Home]]

WinInit == win = WinNew(FALSE, Home)

WinLive == win.status = "ok"

recv_message(message, print) ==
    /\ WinLive
    /\ print => win.h.some
    /\ Len(win.buf) < MaxMsgs \/ message \in DOMAIN win.history
    /\ win' = recv_message_op(win, message, print, build.overflow_checks)
    /\ UNCHANGED NotWin

page_up ==
    /\ WinLive
    /\ win.h.some
    /\ win' = page_up_op(win, build.overflow_checks)
    /\ UNCHANGED NotWin

page_down ==
    /\ WinLive
    /\ win.h.some
    /\ win' = page_down_op(win, build.overflow_checks)
    /\ UNCHANGED NotWin

measure_win(height_spec) ==
    /\ WinLive
    /\ win' = measure_win_op(win, height_spec)
    /\ UNCHANGED NotWin

\* the default ViewTrait::layout
layout_win(top, left_) ==
    /\ WinLive
    /\ win' = [win EXCEPT !.x = left_, !.y = top, !.dirty = FALSE]
    /\ UNCHANGED NotWin

\* the dispatcher redraws a measured window
redraw_window ==
    /\ WinLive
    /\ win.h.some
    /\ win' = redraw_win(win, build.overflow_checks)
    /\ UNCHANGED NotWin

-----------------------------------------------------------------------------
(* String.  A string is the sequence of its characters; a character is a   *)
(* cell [c, pw]: c names the code point, pw records whether the character  *)
(* was typed while the Input was in password mode.  The UTF-8 encoding     *)
(* decides byte lengths and character boundaries.                          *)

\* U+00E7 is the two-byte character of the test buffer "a\u{e7}a", U+20AC a
\* three-byte character; every other character of the model is ASCII
utf8_len(cell) ==
    IF cell.c = "U+00E7" THEN 2
    ELSE IF cell.c = "U+20AC" THEN 3
    ELSE 1

\* the encoding of s, byte by byte: TRUE for a continuation byte
RECURSIVE utf8(_)
utf8(s) ==
    IF s = <<>> THEN <<>>
    ELSE <<FALSE>> \o [i \in 1..(utf8_len(Head(s)) - 1) |-> TRUE] \o utf8(Tail(s))

\* String::len: the length in bytes
len(s) == Len(utf8(s))

\* str::is_char_boundary
is_char_boundary(s, index) ==
    IF index = 0 THEN TRUE
    ELSE IF index >= len(s) THEN index = len(s)
    ELSE ~utf8(s)[index + 1]

\* the number of characters of s that start before byte offset index
RECURSIVE chars_before(_, _)
chars_before(s, index) ==
    IF s = <<>> \/ index <= 0 THEN 0
    ELSE 1 + chars_before(Tail(s), index - utf8_len(Head(s)))

\* String::insert(idx, ch): panics off a character boundary
string_insert(s, idx, ch) ==
    LET k == chars_before(s, idx)
    IN  [panic |-> ~is_char_boundary(s, idx),
         v |-> SubSeq(s, 1, k) \o <<ch>> \o SubSeq(s, k + 1, Len(s))]

\* String::remove(idx): removes the character that starts at byte idx;
\* panics at the end of the string and off a character boundary
string_remove(s, idx) ==
    LET k == chars_before(s, idx)
    IN  IF idx >= len(s) \/ ~is_char_boundary(s, idx)
        THEN [panic |-> TRUE, v |-> s]
        ELSE [panic |-> FALSE,
              v |-> SubSeq(s, 1, k) \o SubSeq(s, k + 2, Len(s))]

\* String::replace_range(from..to, ""): panics off a character boundary
replace_range(s, from, to) ==
    LET a == chars_before(s, from)
        b == chars_before(s, to)
    IN  IF from > to \/ ~is_char_boundary(s, from) \/ ~is_char_boundary(s, to)
        THEN [panic |-> TRUE, v |-> s]
        ELSE [panic |-> FALSE,
              v |-> SubSeq(s, 1, a) \o SubSeq(s, b + 1, Len(s))]

-----------------------------------------------------------------------------
(* Input.                                                                  *)

\* Input::byte_index: the loop steps byte_index up to the cursor-th character
\* boundary.  Past the end of the buffer no offset is a boundary, so the loop
\* never ends (diverges).
RECURSIVE byte_index_loop(_, _, _)
byte_index_loop(buf, cursor, byte_index) ==
    IF cursor = 0 THEN [diverges |-> FALSE, v |-> byte_index]
    ELSE IF byte_index >= len(buf) THEN [diverges |-> TRUE, v |-> 0]
    ELSE byte_index_loop(buf,
                         IF is_char_boundary(buf, byte_index + 1)
                         THEN cursor - 1 ELSE cursor,
                         byte_index + 1)

\* byte_index taking the cursor for a byte offset
byte_index_as_bytes(buf, cursor) == [diverges |-> FALSE, v |-> cursor]

byte_index(buf, cursor) == byte_index_loop(buf, cursor, 0)

NoReturn == [some |-> FALSE, buf |-> <<>>, password |-> FALSE]

\* the caller has taken the value validate returned
returns_nothing(inp) == [inp EXCEPT !.ret = NoReturn]

\* a call input.byte_index(cursor) on Input { buf, .. }, as in
\* test_input_byte_index_for_cursor
byte_index_call ==
    /\ ~bicall.called
    /\ bicall' = [bicall EXCEPT
                    !.called = TRUE,
                    !.result = byte_index(bicall.buf, bicall.cursor)]
    /\ UNCHANGED NotByteIndex

panicked(inp) == [inp EXCEPT !.status = "panic"]
hung(inp) == [inp EXCEPT !.status = "hang"]

\* <Input as ViewTrait>::redraw: blank the line, print buf
redraw_input(inp) == [inp EXCEPT !.line = inp.buf, !.prompt = FALSE]

redraw_unless_password(inp) ==
    IF ~inp.password THEN redraw_input(inp) ELSE inp

\* key that takes the cursor for a byte offset
key_op_at_byte_offset(inp, c) ==
    LET r == string_insert(inp.buf, inp.cursor, [c |-> c, pw |-> inp.password])
    IN  IF r.panic THEN panicked(inp)
        ELSE redraw_unless_password(
                 [inp EXCEPT !.buf = r.v, !.cursor = inp.cursor + 1])

\* Input::key
key_op(inp, c) ==
    LET bi == byte_index(inp.buf, inp.cursor)
        r  == string_insert(inp.buf, bi.v, [c |-> c, pw |-> inp.password])
    IN  IF bi.diverges THEN hung(inp)
        ELSE IF r.panic THEN panicked(inp)
        ELSE redraw_unless_password(
                 [inp EXCEPT !.buf = r.v, !.cursor = inp.cursor + 1])

\* Input::backspace
backspace_op(inp) ==
    IF inp.cursor > 0
    THEN LET bi == byte_index(inp.buf, inp.cursor - 1)
             r  == string_remove(inp.buf, bi.v)
         IN  IF bi.diverges THEN hung(inp)
             ELSE IF r.panic THEN panicked(inp)
             \* the character is removed whole: bi is a boundary again and
             \* the while loop removes nothing more
             ELSE redraw_unless_password(
                      [inp EXCEPT !.buf = r.v, !.cursor = inp.cursor - 1])
    ELSE redraw_unless_password(inp)

Separators ==
    { "/", "\\", "'", "\"", "&", "(", ")", "*", ",", ";", "<", "=", ">", "?",
      "@", "[", "]", "^", "{", "|", "}" }

\* the loop of backward_delete_word over s[1..i], last character first
RECURSIVE word_scan(_, _, _, _)
word_scan(s, i, state, word_start) ==
    IF i = 0 THEN word_start
    ELSE LET c == s[i].c
             next_state ==
                 CASE state \in {"Init", "Space"} ->
                          IF c = " " THEN "Space"
                          ELSE IF c \in Separators THEN "Separator"
                          ELSE "Word"
                   [] state = "Separator" ->
                          IF c \in Separators THEN "Separator" ELSE "break"
                   [] state = "Word" ->
                          IF c = " " \/ c \in Separators THEN "break"
                          ELSE "Word"
         IN  IF next_state = "break" THEN word_start
             ELSE word_scan(s, i - 1, next_state, word_start - 1)

\* Input::backward_delete_word
backward_delete_word_op(inp) ==
    LET bi    == byte_index(inp.buf, inp.cursor)
        slice == SubSeq(inp.buf, 1, chars_before(inp.buf, bi.v))
        word_start == word_scan(slice, Len(slice), "Init", inp.cursor)
        from  == byte_index(inp.buf, word_start)
        r     == replace_range(inp.buf, from.v, bi.v)
    IN  IF bi.diverges THEN hung(inp)
        ELSE IF r.panic THEN panicked(inp)
        ELSE redraw_unless_password(
                 [inp EXCEPT !.buf = r.v, !.cursor = word_start])

\* Input::delete
delete_op(inp) ==
    IF inp.cursor < len(inp.buf)
    THEN LET r == string_remove(inp.buf, inp.cursor)
         IN  IF r.panic THEN panicked(inp)
             ELSE redraw_unless_password([inp EXCEPT !.buf = r.v])
    ELSE redraw_unless_password(inp)

\* Input::home
home_op(inp) == redraw_unless_password([inp EXCEPT !.cursor = 0])

\* Input::end
end_op(inp) == redraw_unless_password([inp EXCEPT !.cursor = len(inp.buf)])

\* Input::left
left_op(inp) ==
    redraw_unless_password(
        IF inp.cursor > 0 THEN [inp EXCEPT !.cursor = inp.cursor - 1] ELSE inp)

\* Input::right
right_op(inp) ==
    redraw_unless_password(
        IF inp.cursor < len(inp.buf)
        THEN [inp EXCEPT !.cursor = inp.cursor + 1] ELSE inp)

\* Input::clear
clear_op(inp) ==
    [inp EXCEPT !.buf = <<>>, !.cursor = 0, !.tmp_buf = NoString,
                !.password = FALSE, !.line = <<>>, !.prompt = FALSE]

\* Input::password
password_op(inp) == [clear_op(inp) EXCEPT !.password = TRUE, !.prompt = TRUE]

\* validate that reads the buffer it returns after clearing the widget
validate_op_clears_first(inp) ==
    [clear_op(IF ~inp.password
              THEN [inp EXCEPT !.history = Append(inp.history, inp.buf),
                               !.history_index = Len(inp.history) + 1]
              ELSE inp)
     EXCEPT !.ret = [some |-> TRUE, buf |-> <<>>, password |-> FALSE]]

\* validate without the password check
validate_op_always_pushes(inp) ==
    [clear_op([inp EXCEPT !.history = Append(inp.history, inp.buf),
                          !.history_index = Len(inp.history) + 1])
     EXCEPT !.ret = [some |-> TRUE, buf |-> inp.buf, password |-> inp.password]]

\* Input::validate; ret is the (String, bool) it returns
validate_op(inp) ==
    [clear_op(IF ~inp.password
              THEN [inp EXCEPT !.history = Append(inp.history, inp.buf),
                               !.history_index = Len(inp.history) + 1]
              ELSE inp)
     EXCEPT !.ret = [some |-> TRUE, buf |-> inp.buf, password |-> inp.password]]

\* previous that saves the scratch slot before it looks at the history cursor
previous_op_saves_first(inp) ==
    LET saved == IF ~inp.tmp_buf.some THEN SomeString(inp.buf)
                 ELSE inp.tmp_buf
    IN  IF inp.history_index = 0
        THEN redraw_input([inp EXCEPT !.tmp_buf = saved])
        ELSE redraw_input([inp EXCEPT !.tmp_buf = saved,
                                      !.history_index = inp.history_index - 1,
                                      !.buf = inp.history[inp.history_index],
                                      !.cursor = len(inp.history[inp.history_index])])

\* Input::previous
previous_op(inp) ==
    IF inp.history_index = 0 THEN inp
    ELSE LET saved == IF ~inp.tmp_buf.some THEN SomeString(inp.buf)
                      ELSE inp.tmp_buf
             entry == inp.history[inp.history_index]
         IN  redraw_input([inp EXCEPT !.tmp_buf = saved,
                                      !.history_index = inp.history_index - 1,
                                      !.buf = entry,
                                      !.cursor = len(entry)])

\* Input::next
next_op(inp) ==
    IF inp.history_index = Len(inp.history) THEN inp
    ELSE LET index == inp.history_index + 1
         IN  IF index = Len(inp.history)
             THEN IF ~inp.tmp_buf.some
                  THEN panicked([inp EXCEPT !.history_index = index])
                  ELSE redraw_input([inp EXCEPT !.history_index = index,
                                                !.buf = inp.tmp_buf.v,
                                                !.tmp_buf = NoString,
                                                !.cursor = len(inp.tmp_buf.v)])
             ELSE redraw_input([inp EXCEPT !.history_index = index,
                                           !.buf = inp.history[index + 1],
                                           !.cursor = len(inp.history[index + 1])])

InputInit ==
    input = [buf |-> <<>>, tmp_buf |-> NoString, password |-> FALSE,
             history |-> <<>>, history_index |-> 0, cursor |-> 0,
             line |-> <<>>, prompt |-> FALSE, ret |-> NoReturn,
             status |-> "ok"]

InputLive == input.status = "ok"

key(c) ==
    /\ InputLive
    /\ input' = returns_nothing(key_op(input, c))
    /\ UNCHANGED NotInput

backspace ==
    /\ InputLive
    /\ input' = returns_nothing(backspace_op(input))
    /\ UNCHANGED NotInput

backward_delete_word ==
    /\ InputLive
    /\ input' = returns_nothing(backward_delete_word_op(input))
    /\ UNCHANGED NotInput

delete ==
    /\ InputLive
    /\ input' = returns_nothing(delete_op(input))
    /\ UNCHANGED NotInput

home ==
    /\ InputLive
    /\ input' = returns_nothing(home_op(input))
    /\ UNCHANGED NotInput

end ==
    /\ InputLive
    /\ input' = returns_nothing(end_op(input))
    /\ UNCHANGED NotInput

left ==
    /\ InputLive
    /\ input' = returns_nothing(left_op(input))
    /\ UNCHANGED NotInput

right ==
    /\ InputLive
    /\ input' = returns_nothing(right_op(input))
    /\ UNCHANGED NotInput

clear ==
    /\ InputLive
    /\ input' = returns_nothing(clear_op(input))
    /\ UNCHANGED NotInput

password ==
    /\ InputLive
    /\ input' = returns_nothing(password_op(input))
    /\ UNCHANGED NotInput

validate ==
    /\ InputLive
    /\ input.password \/ Len(input.history) < MaxHist
    /\ input' = validate_op(input)
    /\ UNCHANGED NotInput

previous ==
    /\ InputLive
    /\ input' = returns_nothing(previous_op(input))
    /\ UNCHANGED NotInput

next ==
    /\ InputLive
    /\ input' = returns_nothing(next_op(input))
    /\ UNCHANGED NotInput

TypedChars == { "a", "U+00E7", "U+20AC" }

RECURSIVE strings_upto(_, _)
strings_upto(chars, n) ==
    IF n = 0 THEN { <<>> }
    ELSE LET shorter == strings_upto(chars, n - 1)
         IN  shorter \cup { Append(t, c) : t \in shorter, c \in chars }

BiInit ==
    \E buf \in strings_upto({ [c |-> ch, pw |-> FALSE] : ch \in TypedChars },
                            MaxStr) :
        \E cursor \in 0..Len(buf) :
            bicall = [buf |-> buf, cursor |-> cursor, called |-> FALSE,
                      result |-> [diverges |-> FALSE, v |-> 0]]

-----------------------------------------------------------------------------
(* Dimension and the default ViewTrait::measure of a leaf view.            *)

MatchParent == [kind |-> "MatchParent", n |-> 0]
Absolute(n) == [kind |-> "Absolute", n |-> n]

\* one axis of a measure that hands Absolute(n) out whatever the constraint
measure_dim_unclamped(dim, dim_spec) ==
    IF dim.kind = "MatchParent" THEN dim_spec ELSE Some(dim.n)

\* one axis of the default measure: MatchParent takes the constraint,
\* Absolute(n) takes n clamped by the constraint
measure_dim(dim, dim_spec) ==
    IF dim.kind = "MatchParent" THEN dim_spec
    ELSE IF dim_spec.some THEN Some(Min(dim.n, dim_spec.v))
    ELSE Some(dim.n)

\* <View<T, E> as ViewTrait>::measure
view_measure(child, width_spec, height_spec) ==
    [child EXCEPT !.w = measure_dim(child.width, width_spec),
                  !.h = measure_dim(child.height, height_spec)]

\* a layout that leaves the dirty flag alone
view_layout_keeps_dirty(child, top, left_) ==
    [child EXCEPT !.x = left_, !.y = top]

\* <View<T, E> as ViewTrait>::layout
view_layout(child, top, left_) ==
    [child EXCEPT !.x = left_, !.y = top, !.dirty = FALSE]

\* a leaf view as its constructor leaves it (Input::new, BufferedWin::new,
\* ListView::new): not measured, dirty
new_view(width, height) ==
    [width |-> width, height |-> height, x |-> 0, y |-> 0,
     w |-> None, h |-> None, dirty |-> TRUE]

\* ListView::insert, reached through the event handler of the view: the
\* content changes and the view asks for a re-render
view_change(child) == [child EXCEPT !.dirty = TRUE]

\* Option::unwrap_or(0)
unwrap_or_0(o) == IF o.some THEN o.v ELSE 0

\* u16 subtraction: with overflow checks an underflow panics, without them
\* it wraps modulo 2^16
u16_sub(a, b, checks) ==
    IF a >= b THEN [panic |-> FALSE, v |-> a - b]
    ELSE IF checks THEN [panic |-> TRUE, v |-> 0]
    ELSE [panic |-> FALSE, v |-> a - b + 65536]

-----------------------------------------------------------------------------
(* LinearLayout.                                                           *)

RECURSIVE sum_of(_)
sum_of(s) == IF s = <<>> THEN 0 ELSE Head(s) + sum_of(Tail(s))

RECURSIVE max_of(_)
max_of(s) == IF s = <<>> THEN 0 ELSE Max(Head(s), max_of(Tail(s)))

measured_widths(children) ==
    [i \in 1..Len(children) |-> unwrap_or_0(children[i].w)]
measured_heights(children) ==
    [i \in 1..Len(children) |-> unwrap_or_0(children[i].h)]

\* remaining_width / remaining_height: max - min, an unguarded u16 subtraction
remaining(max, min, checks) ==
    IF max.some THEN u16_sub(max.v, min, checks)
    ELSE [panic |-> FALSE, v |-> 0]

\* the share of the remaining space of each child that reported no size
splitted(remaining_space, unsized_children) ==
    IF unsized_children = 0 THEN 0 ELSE remaining_space \div unsized_children

\* the second loop of measure, from child i on; w and h are self.w and
\* self.h, specs the (width_spec, height_spec) each child.measure was given
RECURSIVE distribute(_, _, _, _, _, _, _, _, _, _)
distribute(orientation, children, i, w, h, max_width, max_height, splitted_width, splitted_height, checks) ==
    IF i > Len(children)
    THEN [panic |-> FALSE, children |-> children, w |-> w, h |-> h,
          specs |-> <<>>]
    ELSE LET child  == children[i]
             ws0    == IF child.w.some THEN child.w ELSE splitted_width
             hs0    == IF child.h.some THEN child.h ELSE splitted_height
             clampw == orientation = "Horizontal" /\ max_width.some
             clamph == orientation = "Vertical" /\ max_height.some
             roomw  == IF clampw THEN u16_sub(max_width.v, w, checks)
                       ELSE [panic |-> FALSE, v |-> 0]
             roomh  == IF clamph THEN u16_sub(max_height.v, h, checks)
                       ELSE [panic |-> FALSE, v |-> 0]
             ws     == IF clampw THEN Some(Min(ws0.v, roomw.v)) ELSE ws0
             hs     == IF clamph THEN Some(Min(hs0.v, roomh.v)) ELSE hs0
             done   == view_measure(child, ws, hs)
             cw     == unwrap_or_0(done.w)
             ch     == unwrap_or_0(done.h)
             rest   == distribute(orientation, [children EXCEPT ![i] = done],
                                  i + 1,
                                  IF orientation = "Vertical" THEN Max(w, cw)
                                  ELSE w + cw,
                                  IF orientation = "Vertical" THEN h + ch
                                  ELSE Max(h, ch),
                                  max_width, max_height,
                                  splitted_width, splitted_height, checks)
         IN  IF roomw.panic \/ roomh.panic
             THEN [panic |-> TRUE, children |-> children, w |-> w, h |-> h,
                   specs |-> <<>>]
             ELSE [rest EXCEPT !.specs = <<[w |-> ws, h |-> hs]>> \o rest.specs]

\* <View<LinearLayout> as ViewTrait>::measure
measure_ll_op(l, width_spec, height_spec, checks) ==
    LET max_width  == measure_dim(l.width, width_spec)
        max_height == measure_dim(l.height, height_spec)
        natural    == [i \in 1..Len(l.children) |->
                         view_measure(l.children[i], None, None)]
        min_width  == IF l.orientation = "Vertical"
                      THEN max_of(measured_widths(natural))
                      ELSE sum_of(measured_widths(natural))
        min_height == IF l.orientation = "Vertical"
                      THEN sum_of(measured_heights(natural))
                      ELSE max_of(measured_heights(natural))
        remaining_width  == remaining(max_width, min_width, checks)
        remaining_height == remaining(max_height, min_height, checks)
        unsized_w == Cardinality({i \in 1..Len(natural) : ~natural[i].w.some})
        unsized_h == Cardinality({i \in 1..Len(natural) : ~natural[i].h.some})
        splitted_width  == IF l.orientation = "Vertical" THEN max_width
                           ELSE Some(splitted(remaining_width.v, unsized_w))
        splitted_height == IF l.orientation = "Vertical"
                           THEN Some(splitted(remaining_height.v, unsized_h))
                           ELSE max_height
        r == distribute(l.orientation, natural, 1, 0, 0, max_width, max_height,
                        splitted_width, splitted_height, checks)
        frame == [width_spec |-> width_spec, height_spec |-> height_spec,
                  min_width |-> min_width, min_height |-> min_height,
                  max_width |-> max_width, max_height |-> max_height,
                  remaining_width |-> remaining_width,
                  remaining_height |-> remaining_height,
                  specs |-> IF remaining_width.panic \/ remaining_height.panic
                            THEN <<>> ELSE r.specs]
    IN  IF remaining_width.panic \/ remaining_height.panic
        THEN [l EXCEPT !.children = natural, !.status = "panic",
                       !.measured = TRUE, !.frame = frame]
        ELSE [l EXCEPT !.children = r.children, !.w = Some(r.w), !.h = Some(r.h),
                       !.status = IF r.panic THEN "panic" ELSE "ok",
                       !.measured = TRUE, !.frame = frame]

\* View<LinearLayout>::push of a leaf view
push_op(l, width, height) ==
    [l EXCEPT !.children = Append(l.children, new_view(width, height))]

\* a layout loop that puts every child at the position of the container
layout_children_stacked(orientation, children, i, x, y) ==
    [panic |-> FALSE,
     children |-> [k \in 1..Len(children) |-> view_layout(children[k], y, x)]]

\* the loop of layout from child i on; x and y are the running position
RECURSIVE layout_children(_, _, _, _, _)
layout_children(orientation, children, i, x, y) ==
    IF i > Len(children) THEN [panic |-> FALSE, children |-> children]
    ELSE LET done == view_layout(children[i], y, x)
             laid == [children EXCEPT ![i] = done]
         IN  IF orientation = "Vertical"
             THEN IF ~done.h.some THEN [panic |-> TRUE, children |-> laid]
                  ELSE layout_children(orientation, laid, i + 1, x, y + done.h.v)
             ELSE IF ~done.w.some THEN [panic |-> TRUE, children |-> laid]
                  ELSE layout_children(orientation, laid, i + 1, x + done.w.v, y)

\* <View<LinearLayout> as ViewTrait>::layout
layout_ll_op(l, top, left_) ==
    LET r == layout_children(l.orientation, l.children, 1, left_, top)
    IN  [l EXCEPT !.x = left_, !.y = top, !.dirty = FALSE,
                  !.children = r.children,
                  !.status = IF r.panic THEN "panic" ELSE "ok"]

\* the loop of is_dirty from child i on: dirty |= child.is_dirty()
RECURSIVE any_dirty(_, _, _)
any_dirty(children, i, dirty) ==
    IF i > Len(children) THEN dirty
    ELSE any_dirty(children, i + 1, dirty \/ children[i].dirty)

\* <View<LinearLayout> as ViewTrait>::is_dirty
is_dirty_ll(l) == any_dirty(l.children, 1, FALSE)

\* a change of the content of child i
change_ll_op(l, i) == [l EXCEPT !.children[i] = view_change(l.children[i])]

NoFrame ==
    [width_spec |-> None, height_spec |-> None, min_width |-> 0,
     min_height |-> 0, max_width |-> None, max_height |-> None,
     remaining_width |-> [panic |-> FALSE, v |-> 0],
     remaining_height |-> [panic |-> FALSE, v |-> 0], specs |-> <<>>]

Orientations == { "Vertical", "Horizontal" }
Sizes == { Absolute(n) : n \in 1..MaxSize }
\* the <<width, height>> of a pushed child: like the leaf views of the
\* application (Input, BufferedWin, ListView) it fixes at most one axis
Shapes ==
    { <<MatchParent, MatchParent>> }
        \cup { <<d, MatchParent>> : d \in Sizes }
        \cup { <<MatchParent, d>> : d \in Sizes }
Specs == { None } \cup { Some(n) : n \in 0..MaxSpec }

\* View<LinearLayout>::new
LlInit ==
    \E o \in Orientations :
        ll = [orientation |-> o, width |-> MatchParent, height |-> MatchParent,
              children |-> <<>>, x |-> 0, y |-> 0, w |-> None, h |-> None,
              dirty |-> TRUE, status |-> "ok",
              measured |-> FALSE, frame |-> NoFrame]

LlLive == ll.status = "ok"

\* the tree is composed before the dispatcher measures it
push(width, height) ==
    /\ LlLive
    /\ ~ll.measured
    /\ Len(ll.children) < MaxChildren
    /\ ll' = push_op(ll, width, height)
    /\ UNCHANGED NotLayout

measure_ll(width_spec, height_spec) ==
    /\ LlLive
    /\ ll' = measure_ll_op(ll, width_spec, height_spec, build.overflow_checks)
    /\ UNCHANGED NotLayout

layout_ll(top, left_) ==
    /\ LlLive
    /\ ll' = layout_ll_op(ll, top, left_)
    /\ UNCHANGED NotLayout

change_ll(i) ==
    /\ LlLive
    /\ i \in 1..Len(ll.children)
    /\ ll' = change_ll_op(ll, i)
    /\ UNCHANGED NotLayout

-----------------------------------------------------------------------------
(* FrameLayout.  children is a function from the keys inserted so far to   *)
(* the child views; the children are leaf views that draw rows, like the   *)
(* BufferedWin conversation panels of the application.                     *)

Keys == { "k1", "k2" }
NoKey == [some |-> FALSE, v |-> ""]
SomeKey(k) == [some |-> TRUE, v |-> k]

\* View<FrameLayout>::new
FlNew ==
    [width |-> MatchParent, height |-> MatchParent, x |-> 1, y |-> 1,
     w |-> None, h |-> None, dirty |-> TRUE, children |-> <<>>,
     current |-> NoKey, redrawn |-> NoKey, status |-> "ok"]

\* redraw of a child (BufferedWin::redraw, ListView::redraw): h.unwrap()
\* first, w.unwrap() once for every row
child_redraw_panics(child) ==
    ~child.h.some \/ (child.h.v > 0 /\ ~child.w.some)

\* <View<FrameLayout> as ViewTrait>::redraw; redrawn is the key of the child
\* whose redraw the handler called
redraw_fl_op(f) ==
    IF ~f.current.some THEN [f EXCEPT !.redrawn = NoKey]
    ELSE IF f.current.v \notin DOMAIN f.children
    THEN [f EXCEPT !.redrawn = NoKey, !.status = "panic"]
    ELSE [f EXCEPT !.redrawn = f.current,
                   !.status = IF child_redraw_panics(f.children[f.current.v])
                              THEN "panic" ELSE "ok"]

\* View<FrameLayout>::current
current_op(f, key_) == redraw_fl_op([f EXCEPT !.current = SomeKey(key_)])

\* insert that hands the position to the widget as (x, y), not (y, x)
insert_fl_op_swapped(f, key_, widget) ==
    LET placed == view_layout(view_measure(widget, f.w, f.h), f.x, f.y)
    IN  [f EXCEPT !.children = [k \in DOMAIN f.children \cup {key_} |->
                                  IF k = key_ THEN placed ELSE f.children[k]],
                  !.redrawn = NoKey]

\* View<FrameLayout>::insert
insert_fl_op(f, key_, widget) ==
    LET placed == view_layout(view_measure(widget, f.w, f.h), f.y, f.x)
    IN  [f EXCEPT !.children = [k \in DOMAIN f.children \cup {key_} |->
                                  IF k = key_ THEN placed ELSE f.children[k]],
                  !.redrawn = NoKey]

\* <View<FrameLayout> as ViewTrait>::measure
measure_fl_op(f, width_spec, height_spec) ==
    [f EXCEPT !.w = width_spec, !.h = height_spec,
              !.children = [k \in DOMAIN f.children |->
                              view_measure(f.children[k], width_spec, height_spec)],
              !.redrawn = NoKey]

\* <View<FrameLayout> as ViewTrait>::layout
layout_fl_op(f, top, left_) ==
    [f EXCEPT !.x = left_, !.y = top, !.dirty = FALSE,
              !.children = [k \in DOMAIN f.children |->
                              view_layout(f.children[k], top, left_)],
              !.redrawn = NoKey]

\* the loop of is_dirty over the children not yet visited
RECURSIVE any_dirty_in(_, _, _)
any_dirty_in(children, keys, dirty) ==
    IF keys = {} THEN dirty
    ELSE LET k == CHOOSE k \in keys : TRUE
         IN  any_dirty_in(children, keys \ {k}, dirty \/ children[k].dirty)

\* <View<FrameLayout> as ViewTrait>::is_dirty
is_dirty_fl(f) == any_dirty_in(f.children, DOMAIN f.children, FALSE)

\* a change of the content of the child at key_
change_fl_op(f, key_) ==
    [f EXCEPT !.children[key_] = view_change(f.children[key_]),
              !.redrawn = NoKey]

FlInit == fl = FlNew

FlLive == fl.status = "ok"

current(key_) ==
    /\ FlLive
    /\ fl' = current_op(fl, key_)
    /\ UNCHANGED NotFrame

insert_fl(key_, widget) ==
    /\ FlLive
    /\ fl' = insert_fl_op(fl, key_, widget)
    /\ UNCHANGED NotFrame

measure_fl(width_spec, height_spec) ==
    /\ FlLive
    /\ fl' = measure_fl_op(fl, width_spec, height_spec)
    /\ UNCHANGED NotFrame

layout_fl(top, left_) ==
    /\ FlLive
    /\ fl' = layout_fl_op(fl, top, left_)
    /\ UNCHANGED NotFrame

redraw_fl ==
    /\ FlLive
    /\ fl' = redraw_fl_op(fl)
    /\ UNCHANGED NotFrame

change_fl(key_) ==
    /\ FlLive
    /\ key_ \in DOMAIN fl.children
    /\ fl' = change_fl_op(fl, key_)
    /\ UNCHANGED NotFrame

-----------------------------------------------------------------------------
(* Text metrics.  A string is a sequence of characters; "ESC" names the    *)
(* escape character \x1B.                                                  *)

\* '\x30'..='\x3f'
ParameterBytes ==
    { "0", "1", "2", "3", "4", "5", "6", "7", "8", "9", ":", ";", "<", "=",
      ">", "?" }
\* '\x20'..='\x2f'
IntermediateBytes ==
    { " ", "!", "\"", "#", "$", "%", "&", "'", "(", ")", "*", "+", ",", "-",
      ".", "/" }

\* the loops of term_string_visible_len from character i on.  at is the
\* place in the code: "text" the outer loop, "esc" right after an escape
\* character, "csi" the inner loop over a control sequence
RECURSIVE visible_len_from(_, _, _, _)
visible_len_from(string, i, at, n) ==
    IF i > Len(string) THEN n
    ELSE LET c == string[i]
         IN  CASE at = "text" ->
                      IF c = "ESC" THEN visible_len_from(string, i + 1, "esc", n)
                      ELSE visible_len_from(string, i + 1, "text", n + 1)
               [] at = "esc" ->
                      IF c = "[" THEN visible_len_from(string, i + 1, "csi", n)
                      ELSE visible_len_from(string, i + 1, "text", n)
               [] at = "csi" ->
                      IF c \in ParameterBytes \cup IntermediateBytes
                      THEN visible_len_from(string, i + 1, "csi", n)
                      ELSE visible_len_from(string, i + 1, "text", n)

\* a visible length that counts the characters of control sequences too
visible_len_counting_all(string) == Len(string)

term_string_visible_len(string) == visible_len_from(string, 1, "text", 0)

\* termion::color::Bg(termion::color::Red): ESC [ 4 8 ; 5 ; 1 m
BgRed == << "ESC", "[", "4", "8", ";", "5", ";", "1", "m" >>
\* termion::cursor::Goto(1, 123): ESC [ 1 2 3 ; 1 H
Goto_1_123 == << "ESC", "[", "1", "2", "3", ";", "1", "H" >>

\* characters of visible text: none is the escape character
TextChars == { "a", "m", "1", ";", "[", " ", "U+00E7" }

Texts == strings_upto(TextChars, MaxText)

\* the visible text wrapped in the control sequences before and after
wrapped(text, before, after) == before \o text \o after

Wrappings ==
    { <<b, a>> : b, a \in { <<>>, BgRed, Goto_1_123, BgRed \o Goto_1_123,
                            Goto_1_123 \o BgRed } }

VlInit == vl = [called |-> FALSE, string |-> <<>>, text |-> <<>>, len |-> 0]

\* a call of term_string_visible_len on a wrapped text
visible_len(text, before, after) ==
    /\ ~vl.called
    /\ vl' = [called |-> TRUE, string |-> wrapped(text, before, after),
              text |-> text,
              len |-> term_string_visible_len(wrapped(text, before, after))]
    /\ UNCHANGED NotText

-----------------------------------------------------------------------------
(* ListView<G, V>.  Groups and items are their formatted texts.  items is  *)
(* a function from the group keys present, None (the ungrouped bucket) or  *)
(* Some(group), to the set of items of the group.                          *)

WrapContent == [kind |-> "WrapContent", n |-> 0]

\* group names and items: plain text and text with a styling sequence
GroupNames == { <<"g">>, <<"ESC", "[", "1", "m", "g", "r", "o", "u", "p">> }
ListItems == { <<"a">>, <<"ESC", "[", "1", "m", "b", "b", "c">>, <<"b", "b", "c", "d">> }
GroupKeys == { NoString } \cup { SomeString(g) : g \in GroupNames }

\* the indent of the items of a group
indent(group) == IF group.some THEN <<" ", " ">> ELSE <<>>

\* View<ListView>::new, on a terminal with the cursor at a position
LvNew(tracks, cursor) ==
    [width |-> WrapContent, height |-> MatchParent, x |-> 0, y |-> 0,
     w |-> None, h |-> None, dirty |-> TRUE, items |-> <<>>,
     rows |-> <<>>, status |-> "ok",
     tracks |-> tracks, cursor_x |-> None, cursor_y |-> None,
     term |-> [cursor |-> cursor, saved |-> Home]]

\* items.entry(group): the entry is kept when occupied, created with the
\* given set when vacant
entry_or(items, group, created) ==
    [g \in DOMAIN items \cup {group} |->
        IF g \in DOMAIN items THEN items[g] ELSE created]

\* View<ListView>::with_none_group
with_none_group_op(v) == [v EXCEPT !.items = entry_or(v.items, NoString, {})]

\* View<ListView>::add_group
add_group_op(v, group) ==
    [v EXCEPT !.items = entry_or(v.items, SomeString(group), {})]

\* View<ListView>::insert
insert_lv_op(v, item, group) ==
    LET had == entry_or(v.items, group, {})
    IN  [v EXCEPT !.items = [had EXCEPT ![group] = had[group] \cup {item}],
                  !.dirty = TRUE]

\* the loop over the items of one group in measure: the width so far and
\* the visible length of every indented item, cast to u16
RECURSIVE widest_item(_, _, _)
widest_item(group, todo, width) ==
    IF todo = {} THEN width
    ELSE LET item == CHOOSE item \in todo : TRUE
         IN  widest_item(group, todo \ {item},
                 Max(width,
                     term_string_visible_len(indent(group) \o item) % 65536))

\* a content width that leaves out the indent of grouped items
RECURSIVE content_width_no_indent(_, _, _)
content_width_no_indent(items, todo, width) ==
    IF todo = {} THEN width
    ELSE LET group  == CHOOSE group \in todo : TRUE
             header == IF group.some
                       THEN Max(width, term_string_visible_len(group.v) % 65536)
                       ELSE width
         IN  content_width_no_indent(items, todo \ {group},
                                     widest_item(NoString, items[group], header))

\* the loop over the groups in the width of measure
RECURSIVE content_width(_, _, _)
content_width(items, todo, width) ==
    IF todo = {} THEN width
    ELSE LET group  == CHOOSE group \in todo : TRUE
             header == IF group.some
                       THEN Max(width, term_string_visible_len(group.v) % 65536)
                       ELSE width
         IN  content_width(items, todo \ {group},
                           widest_item(group, items[group], header))

\* the loop over the groups in the height of measure
RECURSIVE content_height(_, _, _)
content_height(items, todo, height) ==
    IF todo = {} THEN height
    ELSE LET group == CHOOSE group \in todo : TRUE
         IN  content_height(items, todo \ {group},
                            (IF group.some THEN height + 1 ELSE height)
                                + Cardinality(items[group]))

\* <View<ListView> as ViewTrait>::measure
measure_lv_op(v, width_spec, height_spec) ==
    [v EXCEPT
       !.w = IF v.width = WrapContent
             THEN measure_dim(Absolute(content_width(v.items, DOMAIN v.items, 0)),
                              width_spec)
             ELSE measure_dim(v.width, width_spec),
       !.h = IF v.height = WrapContent
             THEN measure_dim(Absolute(content_height(v.items, DOMAIN v.items, 0)),
                              height_spec)
             ELSE measure_dim(v.height, height_spec)]

\* the orders in which a HashMap or a HashSet hands out the members of S
Orders(S) ==
    { order \in [1..Cardinality(S) -> S] :
        \A i, j \in 1..Cardinality(S) : order[i] = order[j] => i = j }

\* the texts redraw prints for the groups from the i-th on, one per row:
\* the header of a named group, then its items
RECURSIVE printed_rows(_, _, _, _)
printed_rows(items, groups, inner, i) ==
    IF i > Len(groups) THEN <<>>
    ELSE LET group == groups[i]
         IN  (IF group.some THEN <<group.v>> ELSE <<>>)
                 \o [k \in 1..Cardinality(items[group]) |->
                        indent(group) \o inner[group][k]]
                 \o printed_rows(items, groups, inner, i + 1)

\* <View<ListView> as ViewTrait>::redraw, the map handing out the groups in
\* the order groups and every set its items in the order inner
redraw_lv_op(v, groups, inner) ==
    LET saved   == save_cursor(v)
        blanked == IF v.h.v = 0 THEN saved
                   ELSE cursor_at(saved, v.x, v.y + v.h.v - 1)
        rows    == printed_rows(v.items, groups, inner, 1)
        \* the last thing written: a text, or the goto! of an empty bucket
        drawn   == IF groups = <<>> THEN blanked
                   ELSE IF v.items[groups[Len(groups)]] = {}
                            /\ ~groups[Len(groups)].some
                   THEN cursor_at(blanked, v.x, v.y + Len(rows))
                   ELSE cursor_at(blanked,
                                  v.x + term_string_visible_len(rows[Len(rows)]),
                                  v.y + Len(rows) - 1)
    IN  IF ~v.h.some \/ (v.h.v > 0 /\ ~v.w.some)
        THEN [saved EXCEPT !.status = "panic"]
        ELSE restore_cursor([drawn EXCEPT !.rows = rows])

LvInit == lv = LvNew(FALSE, Home)

LvLive == lv.status = "ok"

with_none_group ==
    /\ LvLive
    /\ lv' = with_none_group_op(lv)
    /\ UNCHANGED NotList

add_group(group) ==
    /\ LvLive
    /\ lv' = add_group_op(lv, group)
    /\ UNCHANGED NotList

insert_lv(item, group) ==
    /\ LvLive
    /\ lv' = insert_lv_op(lv, item, group)
    /\ UNCHANGED NotList

measure_lv(width_spec, height_spec) ==
    /\ LvLive
    /\ lv' = measure_lv_op(lv, width_spec, height_spec)
    /\ UNCHANGED NotList

layout_lv(top, left_) ==
    /\ LvLive
    /\ lv' = view_layout(lv, top, left_)
    /\ UNCHANGED NotList

redraw_lv ==
    /\ LvLive
    /\ \E groups \in Orders(DOMAIN lv.items) :
           \E inner \in [DOMAIN lv.items -> UNION { Orders(lv.items[g]) : g \in DOMAIN lv.items }] :
               /\ \A g \in DOMAIN lv.items : inner[g] \in Orders(lv.items[g])
               /\ lv' = redraw_lv_op(lv, groups, inner)
    /\ UNCHANGED NotList

-----------------------------------------------------------------------------
(* Aparte, the event dispatcher.  An event is its kind, the payload the    *)
(* handlers look at and the rank at which it was enqueued.  stack is the   *)
(* call stack of Aparte::event: one frame for every call that holds the    *)
(* event lock and runs the dispatch loop, the last one running.            *)

\* the plugins registered with add_plugin
PluginNames == { "ConversationPlugin", "Disco" }

\* the roles (muc::user::Role) of the items of the MucUser payloads of a
\* Presence
PresenceItems ==
    { <<>>, <<"Participant">>, <<"Participant", "Participant">>, <<"None">>,
      <<"Participant", "None">> }

\* the events the host passes to Aparte::event
HostEvents ==
    { <<kind, <<>>>> : kind \in { "Start", "Command", "SendMessage", "Join", "Key" } }
        \cup { <<"Presence", items>> : items \in PresenceItems }

\* a call of Aparte::event by a handler
raise(kind) == [op |-> "event", kind |-> kind]
\* a panic of a handler
Panic == [op |-> "panic", kind |-> ""]

\* a frame of Aparte::event that enters the while loop
NewFrame == [at |-> "while", event |-> [id |-> 0, kind |-> "", items |-> <<>>],
             i |-> 0, running |-> "", script |-> <<>>]

\* Aparte::new and add_plugin; plugins is the order in which the HashMap of
\* plugins hands them out, accounts the number of accounts of the
\* configuration with autoconnect
ApNew(plugins, accounts) ==
    [plugins |-> plugins, accounts |-> accounts, connections |-> 0,
     event_lock |-> FALSE, event_queue |-> <<>>, stack |-> <<>>,
     conversations |-> FALSE, next_id |-> 1,
     delivered |-> <<>>, handled |-> <<>>, status |-> "ok"]

\* a try_borrow_mut whose guard is dropped at once, so that the lock is
\* never seen held
try_borrow_mut_dropped(a) == TRUE

\* self.event_lock.try_borrow_mut() is Ok
try_borrow_mut(a) == ~a.event_lock

\* Aparte::event up to the while loop: the event is pushed, and the call
\* that gets the lock goes on to the loop
event_op(a, kind, items) ==
    LET pushed == [a EXCEPT !.event_queue = Append(@, [id |-> a.next_id,
                                                        kind |-> kind,
                                                        items |-> items]),
                            !.next_id = @ + 1]
    IN  IF try_borrow_mut(a)
        THEN [pushed EXCEPT !.event_lock = TRUE, !.stack = Append(@, NewFrame)]
        ELSE pushed

\* the running frame
Top(a) == a.stack[Len(a.stack)]

\* the loop over the items of the payloads in ConversationPlugin::on_event:
\* item.role.into() is unreachable!() for Role::None
RECURSIVE occupants(_)
occupants(items) ==
    IF items = <<>> THEN <<>>
    ELSE IF Head(items) = "None" THEN <<Panic>>
    ELSE <<raise("Occupant")>> \o occupants(Tail(items))

\* what on_event of a plugin does with an event: the calls of
\* Aparte::event it makes, in order
on_event_script(plugin, event, conversations) ==
    IF plugin = "ConversationPlugin" /\ event.kind = "Presence" /\ conversations
    THEN occupants(event.items)
    ELSE <<>>

\* Aparte::start: a connect command for every account that autoconnects
start(accounts) == [n \in 1..accounts |-> raise("Command")]

\* Aparte::send: unwrap of the first connection
send(connections) == IF connections = 0 THEN <<Panic>> ELSE <<>>

\* the match on the event in Aparte::event; result is what the command
\* parser answers, converts whether the message converts to an Element
core_script(a, event, result, converts) ==
    CASE event.kind = "Start" -> start(a.accounts)
      [] event.kind = "Command" ->
             IF result = "Err" THEN <<raise("Message")>> ELSE <<>>
      [] event.kind = "SendMessage" ->
             <<raise("Message")>>
                 \o (IF converts THEN send(a.connections) ELSE <<>>)
      [] OTHER -> <<>>

\* the while condition holds: the first event leaves the queue
event_loop_op(a) ==
    [a EXCEPT !.event_queue = Tail(@),
              !.stack[Len(a.stack)] =
                  [NewFrame EXCEPT !.at = "plugins", !.event = Head(a.event_queue),
                                   !.i = 1]]

\* the while condition fails: the call returns and its lock is dropped
event_return_op(a) ==
    [a EXCEPT !.stack = SubSeq(@, 1, Len(@) - 1), !.event_lock = FALSE]

\* the call of on_event of the next plugin
on_event_op(a) ==
    LET frame  == Top(a)
        plugin == a.plugins[frame.i]
        joined == a.conversations
                      \/ (plugin = "ConversationPlugin" /\ frame.event.kind = "Join")
    IN  [a EXCEPT !.delivered = Append(@, [plugin |-> plugin, id |-> frame.event.id]),
                  !.conversations = joined,
                  !.stack[Len(a.stack)] =
                      [frame EXCEPT !.at = "handler", !.running = plugin,
                                    !.script = on_event_script(plugin, frame.event,
                                                               a.conversations)]]

\* the match on the event, after the last plugin
core_op(a, result, converts) ==
    [a EXCEPT !.stack[Len(a.stack)] =
                  [Top(a) EXCEPT !.at = "handler", !.running = "core",
                                 !.script = core_script(a, Top(a).event, result,
                                                        converts)]]

\* the next thing the running handler does: a call of Aparte::event, or a
\* panic, which unwinds every frame and drops the lock
handler_step_op(a) ==
    LET step == Head(Top(a).script)
        rest == [a EXCEPT !.stack[Len(a.stack)].script = Tail(@)]
    IN  IF step.op = "panic"
        THEN [a EXCEPT !.status = "panic", !.stack = <<>>, !.event_lock = FALSE]
        ELSE event_op(rest, step.kind, <<>>)

\* the running handler returns: the next plugin, or the next round of the
\* loop after the match
handler_return_op(a) ==
    IF Top(a).running = "core"
    THEN [a EXCEPT !.handled = Append(@, Top(a).event.id),
                   !.stack[Len(a.stack)] = NewFrame]
    ELSE [a EXCEPT !.stack[Len(a.stack)] =
                       [Top(a) EXCEPT !.at = "plugins", !.running = "",
                                      !.i = @ + 1]]

\* Aparte::add_connection
add_connection_op(a) == [a EXCEPT !.connections = 1]

\* the plugins in the order of their names
ApInit == ap = ApNew(<<"ConversationPlugin", "Disco">>, 0)

ApLive == ap.status = "ok"
Running == ApLive /\ ap.stack # <<>>

\* the events a dispatch of the event can enqueue, itself included
cost(kind, items, accounts) ==
    CASE kind = "Start" -> 1 + 2 * accounts
      [] kind \in { "Command", "SendMessage" } -> 2
      [] kind = "Presence" -> 1 + Len(items)
      [] OTHER -> 1

\* Aparte::event called by the host, between two dispatches
event(kind, items) ==
    /\ ApLive
    /\ ap.stack = <<>>
    /\ ap.next_id - 1 + cost(kind, items, ap.accounts) <= MaxEvents
    /\ ap' = event_op(ap, kind, items)
    /\ UNCHANGED NotAparte

event_loop ==
    /\ Running
    /\ Top(ap).at = "while"
    /\ ap.event_queue # <<>>
    /\ ap' = event_loop_op(ap)
    /\ UNCHANGED NotAparte

event_return ==
    /\ Running
    /\ Top(ap).at = "while"
    /\ ap.event_queue = <<>>
    /\ ap' = event_return_op(ap)
    /\ UNCHANGED NotAparte

on_event ==
    /\ Running
    /\ Top(ap).at = "plugins"
    /\ Top(ap).i <= Len(ap.plugins)
    /\ ap' = on_event_op(ap)
    /\ UNCHANGED NotAparte

core(result, converts) ==
    /\ Running
    /\ Top(ap).at = "plugins"
    /\ Top(ap).i > Len(ap.plugins)
    /\ ap' = core_op(ap, result, converts)
    /\ UNCHANGED NotAparte

handler_step ==
    /\ Running
    /\ Top(ap).at = "handler"
    /\ Top(ap).script # <<>>
    /\ ap' = handler_step_op(ap)
    /\ UNCHANGED NotAparte

handler_return ==
    /\ Running
    /\ Top(ap).at = "handler"
    /\ Top(ap).script = <<>>
    /\ ap' = handler_return_op(ap)
    /\ UNCHANGED NotAparte

add_connection ==
    /\ ApLive
    /\ ap.stack = <<>>
    /\ ap.connections = 0
    /\ ap' = add_connection_op(ap)
    /\ UNCHANGED NotAparte

-----------------------------------------------------------------------------
\* either build profile: overflow checks on (debug) or off (release)
BuildInit == build \in [overflow_checks : BOOLEAN]

Init ==
    /\ BuildInit /\ WinInit /\ InputInit /\ LlInit /\ FlInit /\ LvInit
    /\ VlInit /\ BiInit /\ ApInit

\* The widgets do not interact.  A specification of one widget starts the
\* others in one fixed constructed state; Input and the text metric do no
\* arithmetic that can overflow, so one build profile stands for both.
Idle == ll.orientation = "Vertical" /\ bicall.buf = <<>>
InitWin == Init /\ Idle
InitInput == Init /\ Idle /\ build.overflow_checks
InitLayout == Init /\ bicall.buf = <<>>
InitText == Init /\ Idle /\ build.overflow_checks
InitByteIndex == Init /\ ll.orientation = "Vertical" /\ build.overflow_checks

\* BufferedWin measured once, then used
WinNext ==
    \/ \E hs \in 0..MaxH : ~win.h.some /\ measure_win(Some(hs))
    \/ \E m \in Messages, p \in BOOLEAN : recv_message(m, p)
    \/ page_up
    \/ page_down

SpecWin == InitWin /\ [][WinNext]_vars

\* BufferedWin in a terminal that is resized: measured again with another
\* height and redrawn
ResizeNext ==
    \/ \E hs \in 0..MaxH : measure_win(Some(hs))
    \/ redraw_window
    \/ \E m \in Messages, p \in BOOLEAN : recv_message(m, p)
    \/ page_up
    \/ page_down

SpecResize == InitWin /\ [][ResizeNext]_vars

\* the characters typed into the Input
KeyChars == { "a", "U+00E7" }

InputNext ==
    \/ \E c \in KeyChars : Len(input.buf) < MaxBuf /\ key(c)
    \/ backspace
    \/ backward_delete_word
    \/ delete
    \/ home
    \/ end
    \/ left
    \/ right
    \/ clear
    \/ password
    \/ validate
    \/ previous
    \/ next

SpecInput == InitInput /\ [][InputNext]_vars

\* the characters typed into an Input that is only edited: a word character,
\* a multi-byte word character, the space and a separator
EditChars == { "a", "U+00E7", " ", "/" }

\* editing one line, without submitting it
EditNext ==
    \/ \E c \in EditChars : Len(input.buf) < MaxEdit /\ key(c)
    \/ backspace
    \/ backward_delete_word
    \/ delete
    \/ home
    \/ end
    \/ left
    \/ right

SpecEdit == InitInput /\ [][EditNext]_vars

LlNext ==
    \/ \E shape \in Shapes : push(shape[1], shape[2])
    \/ \E width_spec \in Specs, height_spec \in Specs :
           measure_ll(width_spec, height_spec)

SpecLayout == InitLayout /\ [][LlNext]_vars

\* the children of a FrameLayout: a full-screen panel and a fixed-size one
FrameShapes ==
    { <<MatchParent, MatchParent>>, <<Absolute(MaxSize), Absolute(1)>> }
Positions == 1..MaxPos

FrameNext ==
    \/ \E key_ \in Keys, shape \in FrameShapes :
           insert_fl(key_, new_view(shape[1], shape[2]))
    \/ \E width_spec \in Specs, height_spec \in Specs :
           measure_fl(width_spec, height_spec)
    \/ \E top \in Positions, left_ \in Positions : layout_fl(top, left_)
    \/ \E key_ \in Keys : current(key_)
    \/ redraw_fl
    \/ \E key_ \in Keys : change_fl(key_)

SpecFrame == InitInput /\ [][FrameNext]_vars

\* a LinearLayout that is composed, measured, laid out and changed
DirtyShapes ==
    { <<MatchParent, MatchParent>>, <<Absolute(1), MatchParent>>,
      <<MatchParent, Absolute(1)>> }
DirtySpecs == { None, Some(MaxSpec) }

DirtyNext ==
    \/ \E shape \in DirtyShapes : push(shape[1], shape[2])
    \/ \E width_spec \in DirtySpecs, height_spec \in DirtySpecs :
           measure_ll(width_spec, height_spec)
    \/ \E top \in Positions, left_ \in Positions : layout_ll(top, left_)
    \/ \E i \in 1..MaxChildren : change_ll(i)

\* The containers do not interact: a behaviour works on the FrameLayout or
\* on the LinearLayout, the other stays as constructed.
LlFresh == ll.children = <<>> /\ ~ll.measured /\ ll.dirty
FlFresh == fl = FlNew
ContainerNext ==
    \/ LlFresh /\ FrameNext
    \/ FlFresh /\ DirtyNext

SpecContainers == InitLayout /\ [][ContainerNext]_vars

TextNext ==
    \E text \in Texts, wrapping \in Wrappings :
        visible_len(text, wrapping[1], wrapping[2])

SpecText == InitText /\ [][TextNext]_vars

\* control sequences, whole and cut short: nothing, a lone escape character,
\* an introducer, an introducer with a parameter, a whole sequence
Fragments ==
    { <<>>, <<"ESC">>, <<"ESC", "[">>, <<"ESC", "[", "1">>,
      <<"ESC", "[", "1", "m">> }

\* term_string_visible_len on any string of text and escape characters
EscapesNext ==
    \E text \in Texts, before \in Fragments, after \in Fragments :
        visible_len(text, before, after)

SpecEscapes == InitText /\ [][EscapesNext]_vars

SpecByteIndex == InitByteIndex /\ [][byte_index_call]_vars

\* the number of items of a ListView
item_count(v) ==
    Cardinality(UNION { { <<g, item>> : item \in v.items[g] } :
                            g \in DOMAIN v.items })

\* the width and height of a ListView: as built, or set by its owner
ListShapes ==
    { <<WrapContent, MatchParent>>, <<WrapContent, WrapContent>>,
      <<MatchParent, WrapContent>> }
ListSpecs == { None, Some(MaxSpec), Some(2 * MaxSpec) }

InitList ==
    /\ BuildInit /\ WinInit /\ InputInit /\ LlInit /\ FlInit /\ VlInit /\ BiInit
    /\ ApInit /\ Idle /\ build.overflow_checks
    /\ \E shape \in ListShapes :
           lv = [LvNew(FALSE, Home) EXCEPT !.width = shape[1],
                                           !.height = shape[2]]

\* a ListView that is filled and measured
ListNext ==
    \/ with_none_group
    \/ \E group \in GroupNames : add_group(group)
    \/ \E item \in ListItems, group \in GroupKeys :
           item_count(lv) < MaxItems /\ insert_lv(item, group)
    \/ \E width_spec \in ListSpecs, height_spec \in ListSpecs :
           measure_lv(width_spec, height_spec)

SpecList == InitList /\ [][ListNext]_vars

\* where the terminal cursor is when a view is built: the home position or
\* the place the Input left it
Cursors == { Home, <<3, 2>> }

InitCursor ==
    /\ BuildInit /\ InputInit /\ LlInit /\ FlInit /\ VlInit /\ BiInit /\ ApInit
    /\ Idle
    /\ build.overflow_checks
    /\ \E tracks \in BOOLEAN, cursor \in Cursors :
           win = WinNew(tracks, cursor) /\ lv = LvNew(tracks, cursor)

\* a BufferedWin that is measured, placed, filled, paged and redrawn
WinDrawNext ==
    \/ \E hs \in 0..MaxH : ~win.h.some /\ measure_win(Some(hs))
    \/ \E top \in Positions, left_ \in Positions : layout_win(top, left_)
    \/ redraw_window
    \/ \E m \in Messages, p \in BOOLEAN : recv_message(m, p)
    \/ page_up
    \/ page_down

\* a ListView that is filled, measured, placed and redrawn
ListDrawNext ==
    \/ with_none_group
    \/ \E item \in ListItems, group \in { NoString, SomeString(<<"g">>) } :
           item_count(lv) < MaxItems - 1 /\ insert_lv(item, group)
    \/ \E width_spec \in DirtySpecs, height_spec \in DirtySpecs :
           measure_lv(width_spec, height_spec)
    \/ \E top \in Positions, left_ \in Positions : layout_lv(top, left_)
    \/ redraw_lv

\* The two views do not draw in the same behaviour: one of them stays as
\* it was built.
WinFresh == \E tracks \in BOOLEAN, cursor \in Cursors : win = WinNew(tracks, cursor)
LvFresh == \E tracks \in BOOLEAN, cursor \in Cursors : lv = LvNew(tracks, cursor)
CursorNext ==
    \/ LvFresh /\ WinDrawNext
    \/ WinFresh /\ ListDrawNext

SpecCursor == InitCursor /\ [][CursorNext]_vars

\* the dispatcher between the host, which passes events in and adds a
\* connection, and the handlers; the plugins are handed out in either order
InitDispatch ==
    /\ BuildInit /\ WinInit /\ InputInit /\ LlInit /\ FlInit /\ LvInit
    /\ VlInit /\ BiInit /\ Idle
    /\ build.overflow_checks
    /\ \E plugins \in Orders(PluginNames), accounts \in 0..MaxAccounts :
           ap = ApNew(plugins, accounts)

\* the steps of a call of Aparte::event that is under way
DispatchStep ==
    \/ event_loop
    \/ event_return
    \/ on_event
    \/ \E result \in { "Ok", "Err" }, converts \in BOOLEAN : core(result, converts)
    \/ handler_step
    \/ handler_return

DispatchNext ==
    \/ \E e \in HostEvents : event(e[1], e[2])
    \/ add_connection
    \/ DispatchStep

SpecDispatch == InitDispatch /\ [][DispatchNext]_vars

\* a call under way runs on: the dispatcher is one thread of synchronous
\* code
SpecDispatchFair == SpecDispatch /\ WF_vars(DispatchStep)

-----------------------------------------------------------------------------
(* Claims.                                                                 *)

\* N, the total number of display lines, and H, the visible height
WinN == Len(buffers(win.buf))
WinH == win.h.v

\* C1: in a BufferedWin with N display lines and visible height H, N > H,
\* the viewport offset is in 0..N-H after any sequence of page_up, page_down
\* and recv_message; the next page_up sets it to min(offset + H, N - H) and
\* the next page_down to max(offset - H, 0).
C1_PaginationClamp ==
    (WinLive /\ win.h.some /\ WinN > WinH) =>
        /\ win.view \in 0..(WinN - WinH)
        /\ page_up_op(win, build.overflow_checks).view
               = Min(win.view + WinH, WinN - WinH)
        /\ page_down_op(win, build.overflow_checks).view
               = Max(win.view - WinH, 0)

\* page_up has stopped at N - H short of a whole page
C1_Witness ==
    /\ win.h.some /\ WinH >= 2 /\ WinN > WinH
    /\ win.view = WinN - WinH
    /\ win.view % WinH # 0

\* C2: recv_message of a message equal to a stored one changes nothing
\* (messages, identity mapping, display lines, offset, screen), and
\* receiving a message twice leaves the state of receiving it once.
C2_DedupNoOp ==
    WinLive =>
        \A print \in { p \in BOOLEAN : p => win.h.some } :
            /\ \A i \in 1..Len(win.buf) :
                   recv_message_op(win, win.buf[i], print,
                                   build.overflow_checks) = win
            /\ \A m \in Messages :
                   LET once == recv_message_op(win, m, print,
                                               build.overflow_checks)
                   IN  recv_message_op(once, m, print, build.overflow_checks)
                           = once

\* a scrolled-back window that holds a message of several lines, which
\* recv_message is handed again
C2_Witness ==
    /\ WinLive /\ win.h.some /\ win.view > 0
    /\ \E i \in 1..Len(win.buf) :
           /\ Len(lines(win.buf[i])) > 1
           /\ win.buf[i] \in DOMAIN win.history
           /\ ENABLED recv_message(win.buf[i], TRUE)

\* previous k times, then next k times
RECURSIVE previous_times(_, _)
previous_times(inp, k) ==
    IF k = 0 \/ inp.status # "ok" THEN inp
    ELSE previous_times(previous_op(inp), k - 1)

RECURSIVE next_times(_, _)
next_times(inp, k) ==
    IF k = 0 \/ inp.status # "ok" THEN inp
    ELSE next_times(next_op(inp), k - 1)

\* C3: with n >= k >= 1 history entries and the uncommitted buffer b in the
\* buffer, previous k times then next k times gives back b, an empty scratch
\* slot, the history cursor n and the same history.
C3_HistoryRoundTrip ==
    (InputLive /\ ~input.tmp_buf.some) =>
        \A k \in 1..Len(input.history) :
            LET back == next_times(previous_times(input, k), k)
            IN  /\ back.status = "ok"
                /\ back.buf = input.buf
                /\ ~back.tmp_buf.some
                /\ back.history_index = Len(input.history)
                /\ back.history = input.history

\* the indices of the children of ll that did (fixed) or did not (elastic)
\* report a width in the natural-size pass
FixedWidth == { i \in 1..Len(ll.children) : ll.children[i].width # MatchParent }
ElasticWidth == { i \in 1..Len(ll.children) : ll.children[i].width = MatchParent }

\* C4: a horizontal layout of one fixed-width and two elastic children,
\* measured under the width constraint W: measure assigns widths whose sum
\* is at most W, and the elastic widths differ by at most one.
C4_LinearLayoutConservation ==
    ( /\ ll.measured
      /\ ll.orientation = "Horizontal"
      /\ ll.frame.width_spec.some
      /\ Cardinality(FixedWidth) = 1
      /\ Cardinality(ElasticWidth) = 2 ) =>
        /\ ll.status = "ok"
        /\ sum_of(measured_widths(ll.children)) <= ll.frame.width_spec.v
        /\ \A i, j \in ElasticWidth :
               ll.children[i].w.v - ll.children[j].w.v <= 1

\* the remaining space along the primary axis found by the last measure
PrimaryRemaining ==
    IF ll.orientation = "Horizontal" THEN ll.frame.remaining_width
    ELSE ll.frame.remaining_height
PrimaryMax ==
    IF ll.orientation = "Horizontal" THEN ll.frame.max_width
    ELSE ll.frame.max_height
PrimaryMin ==
    IF ll.orientation = "Horizontal" THEN ll.frame.min_width
    ELSE ll.frame.min_height

\* C5: the remaining primary-axis space of measure is
\* max(0, constraint - natural minimum), found without an underflow.
C5_RemainingSaturates ==
    (ll.measured /\ PrimaryMax.some) =>
        /\ ~PrimaryRemaining.panic
        /\ PrimaryRemaining.v = Max(0, PrimaryMax.v - PrimaryMin)

\* C6: the edit cursor is a code-point offset inside the buffer.
C6_CursorInBuffer ==
    InputLive => input.cursor \in 0..Len(input.buf)

\* the encoded length in bytes of the first n characters of s
RECURSIVE encoded_len(_, _)
encoded_len(s, n) ==
    IF n = 0 THEN 0 ELSE encoded_len(s, n - 1) + utf8_len(s[n])

\* C7: for 0 <= n <= the number of code points, byte_index(n) ends and is
\* the sum of the encoded lengths of the first n code points, a character
\* boundary; byte_index(0) = 0.
C7_ByteIndex ==
    bicall.called =>
        /\ ~bicall.result.diverges
        /\ bicall.result.v = encoded_len(bicall.buf, bicall.cursor)
        /\ is_char_boundary(bicall.buf, bicall.result.v)
        /\ bicall.cursor = 0 => bicall.result.v = 0

\* byte_index(2) on a buffer whose second character takes several bytes, as
\* in test_input_byte_index_for_cursor
C7_Witness ==
    /\ bicall.called
    /\ Len(bicall.buf) = 3
    /\ bicall.cursor = 2
    /\ utf8_len(bicall.buf[1]) = 1
    /\ utf8_len(bicall.buf[2]) > 1
    /\ bicall.result.v > 2

\* C8: the visible length of a visible text wrapped in well-formed control
\* sequences is the number of characters of the text.
C8_VisibleWidth ==
    vl.called => vl.len = Len(vl.text)

\* the strings of test_term_string_visible_len_is_correct, for any text of
\* two characters
C8_Witness ==
    /\ vl.called
    /\ Len(vl.text) = 2
    /\ vl.string \in { BgRed \o vl.text \o Goto_1_123,
                        Goto_1_123 \o vl.text \o BgRed }
    /\ vl.len = 2

\* C9: in password mode the line of the Input shows no character that was
\* typed in password mode.
C9_PasswordNeverEchoes ==
    input.password => \A i \in 1..Len(input.line) : ~input.line[i].pw

\* C10: validate in password mode leaves the history and the history cursor
\* alone, and no history entry holds a character typed in password mode.
C10_PasswordNotInHistory ==
    /\ (InputLive /\ input.password) =>
           /\ validate_op(input).history = input.history
           /\ validate_op(input).history_index = input.history_index
    /\ \A e \in 1..Len(input.history) :
           \A i \in 1..Len(input.history[e]) : ~input.history[e][i].pw

\* validate has just returned a typed password, with a history to keep
C10_Witness ==
    /\ input.ret.some /\ input.ret.password
    /\ Len(input.ret.buf) > 0
    /\ Len(input.history) > 0

\* C11: validate returns the buffer and the password mode of the time of the
\* call; outside password mode it appends that buffer as the newest history
\* entry and sets the history cursor to the history length; in all cases it
\* leaves the buffer empty, the cursor at 0, the scratch slot empty and
\* password mode off.
C11_ValidateReturns ==
    [][ input'.ret.some =>
          /\ input'.ret.buf = input.buf
          /\ input'.ret.password = input.password
          /\ ~input.password =>
                 /\ input'.history = Append(input.history, input.buf)
                 /\ input'.history_index = Len(input'.history)
          /\ input'.buf = <<>>
          /\ input'.cursor = 0
          /\ ~input'.tmp_buf.some
          /\ ~input'.password
          /\ input'.status = "ok" ]_vars

\* validate has just returned a second, non-empty buffer typed in the clear
C11_Witness ==
    /\ input.ret.some /\ ~input.ret.password
    /\ Len(input.ret.buf) > 0
    /\ Len(input.history) = 2
    /\ input.history[2] = input.ret.buf
    /\ input.history_index = 2
    /\ input.buf = <<>>

\* C12: previous at the oldest entry (history cursor 0, an empty history
\* included) and next at the live edit position (history cursor = history
\* length) change nothing of the Input; the history cursor is always in
\* 0..history length.
C12_HistoryClamps ==
    /\ input.history_index \in 0..Len(input.history)
    /\ (InputLive /\ input.history_index = 0) => previous_op(input) = input
    /\ (InputLive /\ input.history_index = Len(input.history)) =>
           next_op(input) = input

\* navigation has reached the oldest of two entries, where previous is
\* pressed again, with the uncommitted buffer in the scratch slot
C12_Witness ==
    /\ InputLive
    /\ Len(input.history) = 2
    /\ input.history_index = 0
    /\ input.tmp_buf.some /\ Len(input.tmp_buf.v) > 0
    /\ input.buf = input.history[1]
    /\ ENABLED previous

\* s without its k-th character
without(s, k) == SubSeq(s, 1, k - 1) \o SubSeq(s, k + 1, Len(s))

\* C13: for a buffer of code points s and a cursor i in 0..|s|, key(c) leaves
\* the buffer s[0..i] ++ c ++ s[i..] and the cursor i + 1, for single-byte
\* and multi-byte characters alike.
C13_KeyInserts ==
    (InputLive /\ input.cursor <= Len(input.buf)) =>
        \A c \in TypedChars :
            LET after == key_op(input, c)
                i     == input.cursor
            IN  /\ after.status = "ok"
                /\ after.buf = SubSeq(input.buf, 1, i)
                                  \o <<[c |-> c, pw |-> input.password]>>
                                  \o SubSeq(input.buf, i + 1, Len(input.buf))
                /\ after.cursor = i + 1

\* a space typed between two multi-byte characters
C13_Witness ==
    /\ InputLive /\ ~input.password
    /\ Len(input.buf) = 3
    /\ utf8_len(input.buf[1]) > 1
    /\ input.buf[2].c = " "
    /\ utf8_len(input.buf[3]) > 1
    /\ input.cursor = 2
    /\ input.line = input.buf

\* C14: backspace removes the one code point before the cursor, whole, and
\* decrements the cursor; every other code point stays; at cursor 0 neither
\* the buffer nor the cursor changes.
C14_BackspaceRemoves ==
    InputLive =>
        LET after == backspace_op(input)
        IN  /\ after.status = "ok"
            /\ IF input.cursor = 0
               THEN after.buf = input.buf /\ after.cursor = 0
               ELSE /\ after.cursor = input.cursor - 1
                    /\ after.buf = without(input.buf,
                                            Min(input.cursor, Len(input.buf)))

\* C15: with the cursor i before the end of the buffer, delete removes the
\* i-th code point and leaves the cursor; with the cursor at the end of the
\* buffer nothing changes.
C15_DeleteRemoves ==
    (InputLive /\ input.cursor <= Len(input.buf)) =>
        LET after == delete_op(input)
        IN  /\ after.status = "ok"
            /\ after.cursor = input.cursor
            /\ after.buf = IF input.cursor < Len(input.buf)
                           THEN without(input.buf, input.cursor + 1)
                           ELSE input.buf

\* the start of the run that ends at position i of s: the spaces before i,
\* then the separators or the word characters before them
SpacesStart(s, i) ==
    CHOOSE j \in 0..i :
        /\ \A k \in (j + 1)..i : s[k].c = " "
        /\ j > 0 => s[j].c # " "
CharClass(c) ==
    IF c = " " THEN "space" ELSE IF c \in Separators THEN "separator" ELSE "word"
RunStart(s, i) ==
    LET m == SpacesStart(s, i)
    IN  IF m = 0 THEN 0
        ELSE CHOOSE j \in 0..(m - 1) :
                 /\ \A k \in (j + 1)..m : CharClass(s[k].c) = CharClass(s[m].c)
                 /\ j > 0 => CharClass(s[j].c) # CharClass(s[m].c)

\* C16: backward_delete_word removes the run before the cursor: the trailing
\* spaces, then a maximal run of separators or a maximal run of word
\* characters; the text after the cursor stays, the cursor ends at the start
\* of the removed run, and at cursor 0 nothing changes.
C16_BackwardDeleteWord ==
    InputLive =>
        LET after == backward_delete_word_op(input)
            i     == Min(input.cursor, Len(input.buf))
            first == RunStart(input.buf, i)
        IN  /\ after.status = "ok"
            /\ after.cursor = first
            /\ after.buf = SubSeq(input.buf, 1, first)
                              \o SubSeq(input.buf, i + 1, Len(input.buf))
            /\ input.cursor = 0 =>
                   after.buf = input.buf /\ after.cursor = 0

\* C17: selecting a new current key on a FrameLayout marks the layout dirty
\* and redraws the newly selected child.
C17_CurrentMarksDirty ==
    [][ ( /\ fl'.current # fl.current
          /\ fl'.current.v \in DOMAIN fl.children
          /\ ~child_redraw_panics(fl.children[fl'.current.v]) ) =>
            /\ fl'.redrawn = fl'.current
            /\ is_dirty_fl(fl') ]_vars

\* C18: every child of a FrameLayout was last measured with the frame's
\* width and height constraint and last laid out at the frame's top and
\* left, the children inserted after the frame was measured and laid out
\* included.
C18_ChildrenFillFrame ==
    \A k \in DOMAIN fl.children :
        LET child == fl.children[k]
        IN  /\ child.w = measure_dim(child.width, fl.w)
            /\ child.h = measure_dim(child.height, fl.h)
            /\ child.x = fl.x
            /\ child.y = fl.y

\* two children in a frame that was measured and laid out away from the
\* diagonal, one of them clamped by the frame's constraint
C18_Witness ==
    /\ DOMAIN fl.children = Keys
    /\ fl.w.some /\ fl.h.some
    /\ fl.x = 2 /\ fl.y = 1
    /\ fl.children["k1"].width = MatchParent
    /\ fl.children["k2"].width # MatchParent
    /\ fl.children["k2"].w.v < fl.children["k2"].width.n

\* C19: is_dirty of a container is the logical OR of its children's
\* is_dirty; layout on a container clears the dirty flag of the container
\* and of every descendant, so is_dirty is false right after layout.
C19_DirtyAggregates ==
    /\ is_dirty_fl(fl) = (\E k \in DOMAIN fl.children : fl.children[k].dirty)
    /\ is_dirty_ll(ll) = (\E i \in 1..Len(ll.children) : ll.children[i].dirty)
    /\ \A top \in Positions, left_ \in Positions :
           /\ LET after == layout_fl_op(fl, top, left_)
              IN  /\ ~after.dirty
                  /\ \A k \in DOMAIN after.children : ~after.children[k].dirty
                  /\ ~is_dirty_fl(after)
           /\ LET after == layout_ll_op(ll, top, left_)
              IN  after.status = "ok" =>
                      /\ ~after.dirty
                      /\ \A i \in 1..Len(after.children) :
                             ~after.children[i].dirty
                      /\ ~is_dirty_ll(after)

\* a LinearLayout that was laid out, after which one of its three children
\* changed: a re-render is pending for that child alone
C19_Witness ==
    /\ LlLive /\ ll.measured /\ ~ll.dirty
    /\ Len(ll.children) = 3
    /\ ll.children[2].dirty
    /\ ~ll.children[1].dirty /\ ~ll.children[3].dirty
    /\ is_dirty_ll(ll)
    /\ ll.children[3].x + ll.children[3].y > ll.x + ll.y

\* C20: redraw of a BufferedWin with N display lines, height H and offset v
\* shows, top to bottom, the lines N-H-v .. N-v-1 when N > H; when N <= H
\* it shows all N lines from the top row and leaves the other rows blank.
C20_RedrawRows ==
    (WinLive /\ win.h.some) =>
        LET after == redraw_win(win, build.overflow_checks)
            all   == buffers(win.buf)
            first == WinN - WinH - win.view
        IN  /\ after.status = "ok"
            /\ \A y \in 1..WinH :
                   IF WinN > WinH
                   THEN /\ first + y \in 1..WinN
                        /\ after.rows[y] = [some |-> TRUE, v |-> all[first + y]]
                   ELSE IF y <= WinN
                   THEN after.rows[y] = [some |-> TRUE, v |-> all[y]]
                   ELSE after.rows[y] = NoLine

\* one axis of a leaf measured under the constraint dim_spec: a MatchParent
\* size is the constraint itself; an Absolute(n) size is n or the constraint,
\* whichever is smaller
FollowsDimension(dim, size, dim_spec) ==
    /\ dim = MatchParent => size = dim_spec
    /\ dim # MatchParent =>
           /\ size.some
           /\ size.v <= dim.n
           /\ dim_spec.some => size.v <= dim_spec.v
           /\ size.v = dim.n \/ (dim_spec.some /\ size.v = dim_spec.v)
    /\ (size.some /\ dim_spec.some) => size.v <= dim_spec.v

\* C22: the default measure of a leaf view follows its Dimension clamped by
\* the constraint: MatchParent gives the constraint (none when none is
\* supplied), Absolute(n) gives min(n, constraint), or n without a
\* constraint; a measured size never exceeds a supplied constraint.
C22_DefaultMeasure ==
    \A k \in DOMAIN fl.children :
        /\ FollowsDimension(fl.children[k].width, fl.children[k].w, fl.w)
        /\ FollowsDimension(fl.children[k].height, fl.children[k].h, fl.h)

\* a fixed-size leaf clamped by the width constraint and left at its own
\* height without a height constraint, next to a fill-parent leaf that has
\* no height
C22_Witness ==
    /\ DOMAIN fl.children = Keys
    /\ fl.w = Some(2) /\ fl.h = None
    /\ fl.children["k1"].width = Absolute(MaxSize)
    /\ fl.children["k1"].w = Some(2)
    /\ fl.children["k1"].h = Some(1)
    /\ fl.children["k2"].height = MatchParent
    /\ fl.children["k2"].h = None

\* the call input.byte_index(n) ends on a character boundary inside buf
EndsOnBoundary(inp, n) ==
    LET bi == byte_index(inp.buf, n)
    IN  /\ ~bi.diverges
        /\ bi.v <= len(inp.buf)
        /\ is_char_boundary(inp.buf, bi.v)

\* C24: in every reachable state of the Input the calls of byte_index made
\* by key and backward_delete_word (at the cursor) and by backspace (one
\* before the cursor) end and return a character boundary not past the end
\* of the buffer; no operation is left scanning for ever.
C24_ByteIndexTerminates ==
    /\ input.status # "hang"
    /\ InputLive =>
           /\ EndsOnBoundary(input, input.cursor)
           /\ input.cursor > 0 => EndsOnBoundary(input, input.cursor - 1)

\* C29: whenever the history cursor of the Input is below the length of the
\* history, the scratch slot holds a saved buffer, so next does not fail
\* when it steps past the newest entry of the history.
C29_ScratchSavedWhileNavigating ==
    (InputLive /\ input.history_index < Len(input.history)) =>
        /\ input.tmp_buf.some
        /\ next_times(input, Len(input.history) - input.history_index).status
               = "ok"

\* C30: in a BufferedWin that receives messages, is paged and is measured
\* again with another height, whenever N > H the offset is at most N - H,
\* so the number of lines redraw skips, N - H - offset, never underflows.
C30_RedrawNeverUnderflows ==
    (WinLive /\ win.h.some /\ WinN > WinH) =>
        /\ win.view <= WinN - WinH
        /\ LET skipped == usize_sub(WinN - WinH, win.view, build.overflow_checks)
           IN  ~skipped.panic /\ ~skipped.wrapped

\* the final bytes '\x40'..='\x7E' among the characters of the model
FinalBytes == { "a", "m", "[", "H" }

\* the characters of string from i on that belong to no control sequence.
\* A control sequence is an escape character, then "[", then parameter and
\* intermediate bytes, then a final byte; it may be cut short after any of
\* its characters, and the character that cuts it short is not part of it.
RECURSIVE columns_from(_, _, _)
columns_from(string, i, in_sequence) ==
    IF i > Len(string) THEN 0
    ELSE IF string[i] = "ESC"
    THEN IF i < Len(string) /\ string[i + 1] = "["
         THEN columns_from(string, i + 2, TRUE)
         ELSE columns_from(string, i + 1, FALSE)
    ELSE IF in_sequence /\ string[i] \in ParameterBytes \cup IntermediateBytes
    THEN columns_from(string, i + 1, TRUE)
    ELSE IF in_sequence /\ string[i] \in FinalBytes
    THEN columns_from(string, i + 1, FALSE)
    ELSE 1 + columns_from(string, i + 1, FALSE)

\* C28: term_string_visible_len counts every character that is part of no
\* control sequence as one column, also when an escape character is not
\* followed by "[" and when a sequence is cut short by another character or
\* by the end of the string.
C28_CountsEveryVisibleCharacter ==
    vl.called => vl.len = columns_from(vl.string, 1, FALSE)

\* the primary axis of ll runs along the width
AlongWidth == ll.orientation = "Horizontal"

\* child i of ll along the primary axis: its Dimension, the constraint the
\* distribution pass of the last measure handed it, and its measured size
PrimaryDimension(i) ==
    IF AlongWidth THEN ll.children[i].width ELSE ll.children[i].height
PrimarySpec(i) ==
    IF AlongWidth THEN ll.frame.specs[i].w ELSE ll.frame.specs[i].h
PrimarySize(child) == IF AlongWidth THEN child.w.v ELSE child.h.v
PrimaryPosition(child) == IF AlongWidth THEN child.x ELSE child.y

\* the same across the primary axis
CrossSpec(i) ==
    IF AlongWidth THEN ll.frame.specs[i].h ELSE ll.frame.specs[i].w
CrossConstraint ==
    IF AlongWidth THEN ll.frame.height_spec ELSE ll.frame.width_spec
CrossPosition(child) == IF AlongWidth THEN child.y ELSE child.x

\* the elastic children of ll, and the sum of the definite sizes of the
\* others: the natural minimum M
Elastic == { i \in 1..Len(ll.children) : PrimaryDimension(i) = MatchParent }
NaturalMinimum ==
    sum_of([i \in 1..Len(ll.children) |->
              IF i \in Elastic THEN 0 ELSE PrimaryDimension(i).n])

\* C25: measure under the primary-axis constraint C, with natural minimum M
\* and e >= 1 elastic children, re-measures every elastic child under
\* floor((C - M) / e) and every fixed child under its own definite size; the
\* remainder (C - M) mod e goes to no child.
C25_DistributionShares ==
    (ll.measured /\ PrimaryMax.some /\ Elastic # {}) =>
        /\ ll.status = "ok"
        /\ Len(ll.frame.specs) = Len(ll.children)
        /\ \A i \in 1..Len(ll.frame.specs) :
               IF i \in Elastic
               THEN PrimarySpec(i)
                        = Some((PrimaryMax.v - NaturalMinimum)
                                   \div Cardinality(Elastic))
               ELSE PrimarySpec(i) = Some(PrimaryDimension(i).n)

\* C26: the distribution pass of measure re-measures every child under the
\* cross-axis constraint of the container itself (none when the container
\* has none), whatever cross-axis size the child reported before.
C26_CrossAxisConstraint ==
    (ll.measured /\ LlLive) =>
        /\ Len(ll.frame.specs) = Len(ll.children)
        /\ \A i \in 1..Len(ll.frame.specs) : CrossSpec(i) = CrossConstraint

\* C27: layout(top, left) of a measured LinearLayout puts the first child at
\* (top, left), every next child where the one before it ends along the
\* primary axis, and every child at the cross-axis coordinate of the
\* container; the measured size of the container is the sum of the
\* children's sizes along the primary axis and their maximum across it.
C27_ContiguousPlacement ==
    (ll.measured /\ LlLive) =>
        /\ ll.w = Some(IF AlongWidth THEN sum_of(measured_widths(ll.children))
                       ELSE max_of(measured_widths(ll.children)))
        /\ ll.h = Some(IF AlongWidth THEN max_of(measured_heights(ll.children))
                       ELSE sum_of(measured_heights(ll.children)))
        /\ \A top \in Positions, left_ \in Positions :
               LET after == layout_ll_op(ll, top, left_)
                   first == IF AlongWidth THEN left_ ELSE top
                   cross == IF AlongWidth THEN top ELSE left_
               IN  /\ after.status = "ok"
                   /\ after.x = left_ /\ after.y = top
                   /\ \A i \in 1..Len(after.children) :
                          /\ CrossPosition(after.children[i]) = cross
                          /\ PrimaryPosition(after.children[i]) =
                                 IF i = 1 THEN first
                                 ELSE PrimaryPosition(after.children[i - 1])
                                          + PrimarySize(after.children[i - 1])

\* three children laid out side by side from (1, 2): the second starts
\* where the first ends and the third where the second ends
C27_Witness ==
    /\ ll.measured /\ LlLive /\ ~ll.dirty
    /\ AlongWidth /\ Len(ll.children) = 3
    /\ ll.x = 2 /\ ll.y = 1
    /\ ll.children[1].x = 2
    /\ ll.children[1].w.v = 1
    /\ ll.children[2].x = 3
    /\ ll.children[2].w.v > 0
    /\ ll.children[3].x = ll.children[2].x + ll.children[2].w.v
    /\ \A i \in 1..3 : ll.children[i].y = 1
    /\ ll.w.v = MaxSpec

\* C23: a redraw of a BufferedWin or of a ListView that returns, called by
\* the dispatcher or by recv_message, page_up or page_down, leaves the
\* terminal cursor at the position it had when the redraw started, with
\* the cursor saved by the terminal or tracked by the view.
C23_CursorPreserved ==
    [][ /\ win'.status = "ok" => win'.term.cursor = win.term.cursor
        /\ lv'.status = "ok" => lv'.term.cursor = lv.term.cursor ]_vars

\* a BufferedWin placed at (2, 1) that printed two lines while the cursor
\* was at column 3 of row 2 of the terminal: the view took the position
\* down before drawing and the cursor is there again
C23_Witness ==
    /\ WinLive /\ win.tracks
    /\ win.x = 1 /\ win.y = 2
    /\ win.next_line = 2
    /\ win.rows[2] = [some |-> TRUE, v |-> <<"b">>]
    /\ win.cursor_x = Some(3) /\ win.cursor_y = Some(2)
    /\ win.term.cursor = <<3, 2>>

\* the visible widths of what a ListView shows: its group headers, and its
\* items, the items of a named group two columns further in
ShownWidths(v) ==
    { columns_from(g.v, 1, FALSE) : g \in { k \in DOMAIN v.items : k.some } }
        \cup UNION { { (IF g.some THEN 2 ELSE 0) + columns_from(item, 1, FALSE) :
                          item \in v.items[g] } : g \in DOMAIN v.items }

\* the largest member of a set of widths, 0 for the empty set
Widest(S) == IF S = {} THEN 0 ELSE CHOOSE m \in S : \A n \in S : n <= m

\* a content size under a constraint: the constraint when it is smaller
Reduced(size, dim_spec) ==
    IF dim_spec.some /\ dim_spec.v < size THEN Some(dim_spec.v) ELSE Some(size)

\* C21: measure of a ListView with a WrapContent width gives the largest
\* visible width over the group headers and the items, an item of a named
\* group counting two columns more; with a WrapContent height it gives the
\* number of named groups plus the number of items; either is the
\* constraint instead when the constraint is smaller.
C21_ListViewShrinksToContent ==
    \A width_spec \in ListSpecs, height_spec \in ListSpecs :
        LET after == measure_lv_op(lv, width_spec, height_spec)
        IN  /\ lv.width = WrapContent =>
                   after.w = Reduced(Widest(ShownWidths(lv)), width_spec)
            /\ lv.height = WrapContent =>
                   after.h = Reduced(Cardinality({ g \in DOMAIN lv.items : g.some })
                                         + item_count(lv), height_spec)

\* a measured list of two named groups and the ungrouped bucket, one item
\* in each: the widest row is the longer header, five visible columns
\* after its styling sequence; two headers and three items make five rows
C21_Witness ==
    /\ lv.width = WrapContent /\ lv.height = WrapContent
    /\ DOMAIN lv.items = GroupKeys
    /\ lv.items[NoString] = { <<"b", "b", "c", "d">> }
    /\ lv.items[SomeString(<<"g">>)] = { <<"a">> }
    /\ item_count(lv) = MaxItems
    /\ lv.w = Some(5) /\ lv.h = Some(5)

\* C31: redraw of a FrameLayout never fails: the current key is absent and
\* redraw draws nothing, or it is a key of the children mapping and redraw
\* calls the redraw of that child and of no other.
C31_RedrawNeverFails ==
    LET after == redraw_fl_op(fl)
    IN  \/ ~fl.current.some /\ after.redrawn = NoKey
        \/ /\ fl.current.some
           /\ fl.current.v \in DOMAIN fl.children
           /\ after.redrawn = fl.current

\* the Dimension of a child across the primary axis, and the largest
\* definite cross-axis size among the children of ll
CrossDimension(i) ==
    IF AlongWidth THEN ll.children[i].height ELSE ll.children[i].width
LargestCross ==
    max_of([i \in 1..Len(ll.children) |->
              IF CrossDimension(i) = MatchParent THEN 0 ELSE CrossDimension(i).n])

\* C32: measure of a LinearLayout under a cross-axis constraint smaller
\* than the largest natural cross-axis size among its children completes
\* and leaves the container and every child with a measured width and a
\* measured height.
C32_NoCrossAxisUnderflow ==
    ( /\ ll.measured
      /\ CrossConstraint.some
      /\ CrossConstraint.v < LargestCross ) =>
        /\ ll.status = "ok"
        /\ ll.w.some /\ ll.h.some
        /\ \A i \in 1..Len(ll.children) :
               ll.children[i].w.some /\ ll.children[i].h.some

\* how often the event of rank id has been handed to on_event of the plugin
Deliveries(plugin, id) ==
    Cardinality({ j \in DOMAIN ap.delivered :
                    ap.delivered[j] = [plugin |-> plugin, id |-> id] })

\* the event of rank id has been delivered to every plugin and handled
\* by the core
Dispatched(id) ==
    /\ \A plugin \in PluginNames : Deliveries(plugin, id) >= 1
    /\ \E j \in DOMAIN ap.handled : ap.handled[j] = id

\* C33: events are delivered one at a time in the order they were
\* enqueued: at most one call of Aparte::event is in the dispatch loop, so
\* no on_event is entered while another runs; an event still in the queue
\* has been delivered to no plugin; the deliveries follow the ranks of
\* enqueueing; and an event is delivered only when every event enqueued
\* before it has been delivered to every plugin and handled by the core.
C33_OneAtATimeInOrder ==
    /\ Len(ap.stack) <= 1
    /\ \A q \in DOMAIN ap.event_queue, plugin \in PluginNames :
           Deliveries(plugin, ap.event_queue[q].id) = 0
    /\ \A j, k \in DOMAIN ap.delivered :
           j < k => ap.delivered[j].id <= ap.delivered[k].id
    /\ \A k \in DOMAIN ap.delivered :
           \A id \in 1..(ap.delivered[k].id - 1) : Dispatched(id)

\* on_event of the ConversationPlugin has raised two Occupant events for a
\* Presence and is about to return: both wait in the queue, behind the
\* lock, and the Presence is still to go to Disco
C33_Witness ==
    /\ Running /\ ap.event_lock
    /\ ap.plugins = <<"ConversationPlugin", "Disco">>
    /\ Top(ap).at = "handler" /\ Top(ap).running = "ConversationPlugin"
    /\ Top(ap).event.kind = "Presence" /\ Top(ap).script = <<>>
    /\ Len(ap.event_queue) = 2
    /\ \A q \in DOMAIN ap.event_queue : ap.event_queue[q].kind = "Occupant"
    /\ Deliveries("Disco", Top(ap).event.id) = 0

\* C34: every event passed to Aparte::event is delivered to every plugin
\* exactly once, and a call of Aparte::event that enters the dispatch loop
\* returns with the queue empty: no event is delivered twice, every event
\* enqueued is in the end delivered to every plugin, and the loop is in
\* the end left, normally, with nothing in the queue.
C34_EveryEventDeliveredOnce ==
    /\ [](\A plugin \in PluginNames, id \in 1..MaxEvents :
             Deliveries(plugin, id) <= 1)
    /\ \A id \in 1..MaxEvents :
           (ap.next_id > id) ~>
               (\A plugin \in PluginNames : Deliveries(plugin, id) = 1)
    /\ (ap.stack # <<>>) ~>
           (ApLive /\ ap.stack = <<>> /\ ap.event_queue = <<>>)

=============================================================================
